---- MODULE Spec2Model ----
(***************************************************************************)
(* Model of counters.c: the kperf/kperfdata binding (lib_init), the event  *)
(* alias resolution (get_event) and the counting session                   *)
(* (performance_counters_init / _start / _stop).                           *)
(*                                                                         *)
(* Pointers are modelled by what they point to, with NULL for the null     *)
(* pointer; a function pointer is TRUE when bound and FALSE when NULL.     *)
(* The private frameworks and the kernel are the environment: every call   *)
(* into them takes its result from a small set of possible results.        *)
(***************************************************************************)
EXTENDS Integers, Sequences, FiniteSets, TLC

NULL == "NULL"

\* ------------------------------------------------------------------------
\* Bounds of the model
\* ------------------------------------------------------------------------

\* modelled length of lib_symbols_kperf (34 entries in the source)
NumKperfSyms == 3
\* modelled length of lib_symbols_kperfdata (23 entries in the source)
NumKperfdataSyms == 2
\* alias arrays explored by SpecResolve have free entries up to this index
MaxCandidates == 4
\* the kpep library reports 0..MaxRegCount configuration registers
MaxRegCount == 1
\* the kpep library maps the events to counters 0..MaxReg
MaxReg == 1
\* 64-bit counter arithmetic is modelled modulo WordMod
WordMod == 256
\* the caller of the session makes at most MaxCalls calls
MaxCalls == 4
\* the specification of init alone calls it at most MaxInits times
MaxInits == 2
\* the number of trace records
MaxBufs == 4
\* the number of counters of a sample
MaxCounterCount == 8
\* kdebug_wait is called with a timeout of 0..MaxTimeout milliseconds
MaxTimeout == 12
\* one kernel read delivers at most nbufs records (1000000 in the source)
nbufs == 2
\* the time to profile, in sample periods (100 in the source)
total_profile_time == 5

\* ------------------------------------------------------------------------
\* Program constants
\* ------------------------------------------------------------------------

EVENT_NAME_MAX == 8
KPC_MAX_COUNTERS == 32
KPC_CLASS_FIXED_MASK == 1
KPC_CLASS_CONFIGURABLE_MASK == 2
KPEP_CONFIG_ERROR_MAX == 16
\* the number of entries of profile_events
ev_count == 4
\* the subclass and the code of a record of thread PMC data
PERF_KPC == 6
PERF_KPC_DATA_THREAD == 8
\* the sample period: the unit of time of the model
sample_period == 1

VARIABLES
  \* platform binding (counters.c:644-649 and the function pointers)
  lib_inited, lib_has_err, lib_err_msg,
  lib_handle_kperf, lib_handle_kperfdata,
  impl_kperf, impl_kperfdata,
  \* what the dynamic loader can currently provide
  dl_avail,
  \* arguments and result of a get_event call
  alias_in, ev_out,
  \* globals of the counting session (counters.c:940-951)
  db, cfg, ev_arr, classes, reg_count, counter_map, counters_0, counters_1,
  \* the caller's array handed to performance_counters_stop
  values,
  \* the kernel: classes counting globally and for the thread, and whether
  \* the counters are force-reserved
  kpc_counting, kpc_thread_counting, kpc_force_all_ctrs,
  \* the last call: which operation, what it returned, which calls it made
  op, ret, calls,
  \* the number of session calls made so far
  n_calls,
  \* trace decode of main2: the records read from the kernel, the number of
  \* counters of a sample, and the samples decoded from the records
  kd_bufs, counter_count, samples,
  \* thread aggregation and report of main2: the entries of thread_data,
  \* what is printed per thread, and the sums over the threads
  thread_data, reported, counters_sum,
  \* collection loop of main2: the position of main2, whether the local
  \* buffer is allocated (buf_hdr is not NULL), its capacity and contents,
  \* the write position (buf_cur - buf_hdr), the end pointer
  \* (buf_end - buf_hdr), the time since begin, all the records the kernel
  \* delivered so far, and what main2 printed
  pc, buf_hdr, buf_capacity, buf_mem, buf_cur, buf_end, now, trace_read,
  printed,
  \* a call of kdebug_wait: its argument timeout_ms, what suc points to
  \* (NULL for no pointer), and what the kernel does with a wait
  timeout_ms, suc, kdbufwait,
  \* a call of kdebug_trace_read: its arguments buf (TRUE when not NULL) and
  \* len, what count points to (ptr is FALSE for the NULL pointer), what the
  \* kernel does with the read, and whether a store went through NULL
  rd_buf, rd_len, rd_count, kdreadtr, rd_fault

libvars == <<lib_inited, lib_has_err, lib_err_msg, lib_handle_kperf,
             lib_handle_kperfdata, impl_kperf, impl_kperfdata>>
resvars == <<alias_in, ev_out>>
progvars == <<db, cfg, ev_arr, classes, reg_count, counter_map, counters_0,
              counters_1, values>>
kernvars == <<kpc_counting, kpc_thread_counting, kpc_force_all_ctrs>>
obsvars == <<op, ret, calls, n_calls>>
decvars == <<kd_bufs, counter_count, samples, thread_data, reported,
             counters_sum>>
colvars == <<pc, buf_hdr, buf_capacity, buf_mem, buf_cur, buf_end, now,
             trace_read, printed>>
waitvars == <<timeout_ms, suc, kdbufwait>>
readvars == <<rd_buf, rd_len, rd_count, kdreadtr, rd_fault>>
tracevars == <<decvars, colvars, waitvars, readvars>>
vars == <<libvars, dl_avail, resvars, progvars, kernvars, obsvars,
          tracevars>>

\* ------------------------------------------------------------------------
\* Platform binding: lib_deinit, lib_init
\* ------------------------------------------------------------------------

\* the first 14 entry points of each list; the model binds the first
\* NumKperfSyms and NumKperfdataSyms of them
lib_symbols_kperf ==
  <<"kpc_pmu_version", "kpc_cpu_string", "kpc_set_counting",
    "kpc_get_counting", "kpc_set_thread_counting", "kpc_get_thread_counting",
    "kpc_get_config_count", "kpc_get_counter_count", "kpc_set_config",
    "kpc_get_config", "kpc_get_cpu_counters", "kpc_get_thread_counters",
    "kpc_force_all_ctrs_set", "kpc_force_all_ctrs_get">>

lib_symbols_kperfdata ==
  <<"kpep_config_create", "kpep_config_free", "kpep_config_add_event",
    "kpep_config_remove_event", "kpep_config_force_counters",
    "kpep_config_events_count", "kpep_config_events", "kpep_config_kpc",
    "kpep_config_kpc_count", "kpep_config_kpc_classes",
    "kpep_config_kpc_map", "kpep_db_create", "kpep_db_free",
    "kpep_db_name">>

KperfSyms == 1..NumKperfSyms
KperfdataSyms == 1..NumKperfdataSyms

\* the libraries dlopen can load and the symbols dlsym can resolve
DlEnv == [kperf : BOOLEAN, kperfdata : BOOLEAN,
          sym_kperf : SUBSET KperfSyms, sym_kperfdata : SUBSET KperfdataSyms]

AllAvailable == [kperf |-> TRUE, kperfdata |-> TRUE,
                 sym_kperf |-> KperfSyms, sym_kperfdata |-> KperfdataSyms]

\* a call made is logged as <<function, argument, result>>; a pointer result
\* is logged as 1, or 0 when it is NULL
Ptr(nonnull) == IF nonnull THEN 1 ELSE 0

\* the binding state as one value, with the calls made so far
LibState == [lib_inited |-> lib_inited, lib_has_err |-> lib_has_err,
             lib_err_msg |-> lib_err_msg,
             lib_handle_kperf |-> lib_handle_kperf,
             lib_handle_kperfdata |-> lib_handle_kperfdata,
             impl_kperf |-> impl_kperf, impl_kperfdata |-> impl_kperfdata,
             calls |-> <<>>, ret |-> TRUE]

\* mutant of lib_deinit: the entry points are left as they are
lib_deinit_keeps_symbols(S) ==
  [S EXCEPT !.lib_inited = FALSE,
            !.lib_has_err = FALSE,
            !.calls = S.calls
                 \o (IF S.lib_handle_kperf
                       THEN << <<"dlclose", "kperf", 0>> >> ELSE <<>>)
                 \o (IF S.lib_handle_kperfdata
                       THEN << <<"dlclose", "kperfdata", 0>> >> ELSE <<>>),
            !.lib_handle_kperf = FALSE,
            !.lib_handle_kperfdata = FALSE]

lib_deinit(S) ==
  [S EXCEPT !.lib_inited = FALSE,
            !.lib_has_err = FALSE,
            !.calls = S.calls
                 \o (IF S.lib_handle_kperf
                       THEN << <<"dlclose", "kperf", 0>> >> ELSE <<>>)
                 \o (IF S.lib_handle_kperfdata
                       THEN << <<"dlclose", "kperfdata", 0>> >> ELSE <<>>),
            !.lib_handle_kperf = FALSE,
            !.lib_handle_kperfdata = FALSE,
            !.impl_kperf = [i \in KperfSyms |-> FALSE],
            !.impl_kperfdata = [i \in KperfdataSyms |-> FALSE]]

\* mutant of return_err: the failure is not recorded, so the next call loads
return_err_forgets(S) ==
  [lib_deinit(S) EXCEPT !.ret = FALSE]

\* the return_err() macro of lib_init
return_err(S) ==
  [lib_deinit(S) EXCEPT !.lib_inited = TRUE, !.lib_has_err = TRUE,
                        !.ret = FALSE]

\* mutant of load_symbols: the loop goes on after a symbol that could not be
\* resolved
RECURSIVE load_symbols_continues(_, _, _, _)
load_symbols_continues(S, l, i, e) ==
  LET n == IF l = "kperf" THEN NumKperfSyms ELSE NumKperfdataSyms
      found == IF l = "kperf" THEN i \in e.sym_kperf
                              ELSE i \in e.sym_kperfdata
      S1 == IF l = "kperf"
              THEN [S EXCEPT !.impl_kperf[i] = found,
                             !.calls = Append(@, <<"dlsym",
                                lib_symbols_kperf[i], Ptr(found)>>)]
              ELSE [S EXCEPT !.impl_kperfdata[i] = found,
                             !.calls = Append(@, <<"dlsym",
                                lib_symbols_kperfdata[i], Ptr(found)>>)]
  IN IF i > n THEN S
     ELSE IF ~found
       THEN load_symbols_continues(
              [S1 EXCEPT !.lib_err_msg =
                          IF l = "kperf"
                            THEN "Failed to load kperf function: "
                                   \o lib_symbols_kperf[i] \o "."
                            ELSE "Failed to load kperfdata function: "
                                   \o lib_symbols_kperfdata[i] \o ".",
                         !.ret = FALSE], l, i + 1, e)
       ELSE load_symbols_continues(S1, l, i + 1, e)

\* the two dlsym loops of lib_init, from entry i of the list of library l;
\* ret is FALSE in the result when a symbol could not be resolved
RECURSIVE load_symbols(_, _, _, _)
load_symbols(S, l, i, e) ==
  LET n == IF l = "kperf" THEN NumKperfSyms ELSE NumKperfdataSyms
      found == IF l = "kperf" THEN i \in e.sym_kperf
                              ELSE i \in e.sym_kperfdata
      S1 == IF l = "kperf"
              THEN [S EXCEPT !.impl_kperf[i] = found,
                             !.calls = Append(@, <<"dlsym",
                                lib_symbols_kperf[i], Ptr(found)>>)]
              ELSE [S EXCEPT !.impl_kperfdata[i] = found,
                             !.calls = Append(@, <<"dlsym",
                                lib_symbols_kperfdata[i], Ptr(found)>>)]
  IN IF i > n THEN S
     ELSE IF ~found
       THEN [S1 EXCEPT !.lib_err_msg =
                          IF l = "kperf"
                            THEN "Failed to load kperf function: "
                                   \o lib_symbols_kperf[i] \o "."
                            ELSE "Failed to load kperfdata function: "
                                   \o lib_symbols_kperfdata[i] \o ".",
                       !.ret = FALSE]
       ELSE load_symbols(S1, l, i + 1, e)

\* lib_init after its cache test: load both libraries, then the symbols
lib_init_load(S, e) ==
  LET S1 == [S EXCEPT !.lib_handle_kperf = e.kperf,
                      !.calls = Append(@, <<"dlopen", "kperf",
                                            Ptr(e.kperf)>>)]
      S2 == [S1 EXCEPT !.lib_handle_kperfdata = e.kperfdata,
                       !.calls = Append(@, <<"dlopen", "kperfdata",
                                             Ptr(e.kperfdata)>>)]
      S3 == load_symbols(S2, "kperf", 1, e)
      S4 == load_symbols(S3, "kperfdata", 1, e)
  IN IF ~S1.lib_handle_kperf
       THEN return_err([S1 EXCEPT !.lib_err_msg =
                          "Failed to load kperf.framework"])
     ELSE IF ~S2.lib_handle_kperfdata
       THEN return_err([S2 EXCEPT !.lib_err_msg =
                          "Failed to load kperfdata.framework"])
     ELSE IF ~S3.ret THEN return_err(S3)
     ELSE IF ~S4.ret THEN return_err(S4)
     ELSE [S4 EXCEPT !.lib_inited = TRUE, !.lib_has_err = FALSE,
                     !.ret = TRUE]

\* mutant of lib_init: the cache test is missing
lib_init_reloads(S, e) == lib_init_load(S, e)

lib_init(S, e) ==
  IF S.lib_inited THEN [S EXCEPT !.ret = ~S.lib_has_err]
  ELSE lib_init_load(S, e)

SetLib(S) ==
  /\ lib_inited' = S.lib_inited
  /\ lib_has_err' = S.lib_has_err
  /\ lib_err_msg' = S.lib_err_msg
  /\ lib_handle_kperf' = S.lib_handle_kperf
  /\ lib_handle_kperfdata' = S.lib_handle_kperfdata
  /\ impl_kperf' = S.impl_kperf
  /\ impl_kperfdata' = S.impl_kperfdata

\* ------------------------------------------------------------------------
\* Event catalog: kpep_db_event and get_event
\* ------------------------------------------------------------------------

\* a database is open or not and defines a set of event names; the event
\* handle of a name is the name
NoDb == [open |-> FALSE, events |-> {}]
OpenDb(names) == [open |-> TRUE, events |-> names]

kpep_db_event(d, name) ==
  IF name \in d.events THEN [ret |-> 0, ev |-> name]
                        ELSE [ret |-> 11, ev |-> NULL]

\* mutant of get_event: a NULL entry is skipped instead of ending the scan
RECURSIVE get_event_skips_null(_, _, _)
get_event_skips_null(d, alias, j) ==
  IF j > EVENT_NAME_MAX THEN NULL
  ELSE LET name == alias.names[j]
       IN IF name = NULL THEN get_event_skips_null(d, alias, j + 1)
          ELSE IF kpep_db_event(d, name).ret = 0
            THEN kpep_db_event(d, name).ev
          ELSE get_event_skips_null(d, alias, j + 1)

\* the loop of get_event from entry j (entries are numbered from 1 here)
RECURSIVE get_event_from(_, _, _)
get_event_from(d, alias, j) ==
  IF j > EVENT_NAME_MAX THEN NULL
  ELSE LET name == alias.names[j]
       IN IF name = NULL THEN NULL
          ELSE IF kpep_db_event(d, name).ret = 0
            THEN kpep_db_event(d, name).ev
          ELSE get_event_from(d, alias, j + 1)

get_event(d, alias) == get_event_from(d, alias, 1)

\* ------------------------------------------------------------------------
\* Counting session: the globals, the kernel and the results of the calls
\* ------------------------------------------------------------------------

Events == 1..ev_count
Registers == 0..(KPC_MAX_COUNTERS - 1)

\* a configuration of the kpep library: created or not, its counters forced
\* or not, the events added so far, and the bitmap of the event indices the
\* library found in conflict when an event could not be added (it is written
\* through the err pointer of kpep_config_add_event when that is not NULL)
NoCfg == [created |-> FALSE, forced |-> FALSE, events |-> <<>>,
          conflict |-> 0]

\* the globals and the kernel as one value, with the calls made so far, the
\* value returned and whether the function has returned
ProgState ==
  [db |-> db, cfg |-> cfg, ev_arr |-> ev_arr, classes |-> classes,
   reg_count |-> reg_count, counter_map |-> counter_map,
   counters_0 |-> counters_0, counters_1 |-> counters_1, values |-> values,
   kpc_counting |-> kpc_counting,
   kpc_thread_counting |-> kpc_thread_counting,
   kpc_force_all_ctrs |-> kpc_force_all_ctrs,
   calls |-> <<>>, ret |-> NULL, done |-> FALSE]

\* the globals other than db before the first call
ProgRestIdle ==
  /\ cfg = NoCfg /\ ev_arr = [i \in Events |-> NULL]
  /\ classes = 0 /\ reg_count = 0 /\ counter_map = [i \in Events |-> 0]
  /\ counters_0 = [r \in Registers |-> 0]
  /\ counters_1 = [r \in Registers |-> 0]
  /\ values = [i \in Events |-> 0]

ProgIdle == db = NoDb /\ ProgRestIdle

KernIdle ==
  kpc_counting = 0 /\ kpc_thread_counting = 0 /\ kpc_force_all_ctrs = 0

SetProg(G) ==
  /\ db' = G.db /\ cfg' = G.cfg /\ ev_arr' = G.ev_arr
  /\ classes' = G.classes /\ reg_count' = G.reg_count
  /\ counter_map' = G.counter_map
  /\ counters_0' = G.counters_0 /\ counters_1' = G.counters_1
  /\ values' = G.values
  /\ kpc_counting' = G.kpc_counting
  /\ kpc_thread_counting' = G.kpc_thread_counting
  /\ kpc_force_all_ctrs' = G.kpc_force_all_ctrs

\* ------------------------------------------------------------------------
\* Specification of the binding alone: lib_init is called again and again
\* while what the loader can provide changes between the calls
\* ------------------------------------------------------------------------

NoAlias == [alias |-> NULL, names |-> [j \in 1..EVENT_NAME_MAX |-> NULL]]

ResIdle == alias_in = NoAlias /\ ev_out = NULL

\* main2 has not collected anything
ColIdle ==
  /\ pc = "none" /\ buf_hdr = FALSE /\ buf_capacity = 0 /\ buf_mem = <<>>
  /\ buf_cur = 0 /\ buf_end = 0 /\ now = 0 /\ trace_read = <<>>
  /\ printed = <<>>

\* kdebug_wait is not called
WaitIdle ==
  /\ timeout_ms = 0 /\ suc = NULL
  /\ kdbufwait = [ret |-> 0, filled |-> FALSE]

\* kdebug_trace_read is not called
ReadIdle ==
  /\ rd_buf = FALSE /\ rd_len = 0 /\ rd_count = [ptr |-> FALSE, val |-> 0]
  /\ kdreadtr = [ret |-> 0, len |-> 0] /\ rd_fault = FALSE

\* no trace has been read
DecIdle ==
  /\ kd_bufs = <<>> /\ counter_count = 0 /\ samples = <<>>
  /\ thread_data = <<>> /\ reported = <<>>
  /\ counters_sum = [r \in 0..(KPC_MAX_COUNTERS - 1) |-> 0]

\* the binding before the first call (counters.c:644-649)
LibIdle ==
  /\ lib_inited = FALSE /\ lib_has_err = FALSE /\ lib_err_msg = ""
  /\ lib_handle_kperf = FALSE /\ lib_handle_kperfdata = FALSE
  /\ impl_kperf = [i \in KperfSyms |-> FALSE]
  /\ impl_kperfdata = [i \in KperfdataSyms |-> FALSE]

InitLib ==
  /\ LibIdle
  /\ dl_avail \in DlEnv
  /\ ResIdle
  /\ ProgIdle
  /\ KernIdle
  /\ DecIdle /\ ColIdle /\ WaitIdle /\ ReadIdle
  /\ op = "none" /\ ret = TRUE /\ calls = <<>> /\ n_calls = 0

\* a call of lib_init
LibInitCall ==
  LET R == lib_init(LibState, dl_avail)
  IN /\ SetLib(R)
     /\ op' = "lib_init" /\ ret' = R.ret /\ calls' = R.calls
     /\ UNCHANGED n_calls
     /\ UNCHANGED <<dl_avail, resvars, progvars, kernvars, tracevars>>

\* a framework or a symbol appears or disappears
DlChange ==
  /\ \E e \in DlEnv : e # dl_avail /\ dl_avail' = e
  /\ UNCHANGED <<libvars, resvars, progvars, kernvars, obsvars, tracevars>>

NextLib == LibInitCall \/ DlChange

SpecLib == InitLib /\ [][NextLib]_vars

\* in SpecLib, a step that leaves the loader's environment alone is a call
LibCallStep == dl_avail' = dl_avail

\* the positions of the log where f was called, and where it returned r
Made(f) == {k \in 1..Len(calls) : calls[k][1] = f}
MadeWith(f, r) == {k \in Made(f) : calls[k][3] = r}
Failed(f) == {k \in Made(f) : calls[k][3] # 0}

\* C9: once a call of lib_init has succeeded, every later call returns
\* success, calls neither dlopen nor dlsym (nor anything else), and leaves
\* both handles and every entry point as they were.
C9_InitIdempotentAfterSuccess ==
  [][(op = "lib_init" /\ ret = TRUE /\ LibCallStep)
       => (ret' = TRUE /\ calls' = <<>> /\ UNCHANGED libvars)]_vars

\* a call answered from the cache although the frameworks are gone
C9_Witness ==
  /\ op = "lib_init" /\ ret = TRUE /\ calls = <<>>
  /\ ~dl_avail.kperf /\ ~dl_avail.kperfdata
  /\ lib_handle_kperf /\ lib_handle_kperfdata
  /\ \A i \in KperfSyms : impl_kperf[i]
  /\ \A i \in KperfdataSyms : impl_kperfdata[i]

\* C10, as claimed: a call of lib_init that follows a failed one loads the
\* libraries again and succeeds when everything is available by then.
C10_RetryAfterFailure ==
  [][(op = "lib_init" /\ ret = FALSE /\ LibCallStep
        /\ dl_avail = AllAvailable)
       => (ret' = TRUE /\ Made("dlopen")' # {})]_vars

\* C10, amended: the failure is cached; a call of lib_init that follows a
\* failed one returns failure again without calling dlopen or dlsym, and
\* leaves every handle and entry point NULL, whatever is available by then.
C10_FailureIsCached ==
  [][(op = "lib_init" /\ ret = FALSE /\ LibCallStep)
       => (/\ ret' = FALSE /\ calls' = <<>>
           /\ ~lib_handle_kperf' /\ ~lib_handle_kperfdata'
           /\ \A i \in KperfSyms : ~impl_kperf'[i]
           /\ \A i \in KperfdataSyms : ~impl_kperfdata'[i])]_vars

\* a second call has failed from the cache although everything is available
C10_Witness ==
  /\ op = "lib_init" /\ ret = FALSE /\ calls = <<>>
  /\ dl_avail = AllAvailable
  /\ lib_inited /\ lib_has_err

\* C11: whenever lib_init has returned, either it returned success and both
\* handles and every entry point of both lists are non-NULL, or it returned
\* failure and both handles and every entry point are NULL.
C11_NoPartialBinding ==
  op = "lib_init" =>
    IF ret
      THEN /\ lib_handle_kperf /\ lib_handle_kperfdata
           /\ \A i \in KperfSyms : impl_kperf[i]
           /\ \A i \in KperfdataSyms : impl_kperfdata[i]
      ELSE /\ ~lib_handle_kperf /\ ~lib_handle_kperfdata
           /\ \A i \in KperfSyms : ~impl_kperf[i]
           /\ \A i \in KperfdataSyms : ~impl_kperfdata[i]

\* a call failed at a kperfdata symbol after both libraries and every kperf
\* symbol had been loaded, and nothing is left bound
C11_Witness ==
  /\ op = "lib_init" /\ ret = FALSE
  /\ Cardinality(MadeWith("dlopen", 1)) = 2
  /\ Cardinality(MadeWith("dlsym", 1)) >= NumKperfSyms
  /\ Cardinality(Made("dlclose")) = 2
  /\ ~lib_handle_kperf /\ ~lib_handle_kperfdata
  /\ \A i \in KperfSyms : ~impl_kperf[i]
  /\ \A i \in KperfdataSyms : ~impl_kperfdata[i]

\* the symbols in the order lib_init resolves them: the kperf list, then the
\* kperfdata list; each with its library and whether loader e provides it
SymbolOrder(e) ==
  [k \in 1..(NumKperfSyms + NumKperfdataSyms) |->
     IF k <= NumKperfSyms
       THEN [lib |-> "kperf", name |-> lib_symbols_kperf[k],
             found |-> k \in e.sym_kperf]
       ELSE [lib |-> "kperfdata",
             name |-> lib_symbols_kperfdata[k - NumKperfSyms],
             found |-> (k - NumKperfSyms) \in e.sym_kperfdata]]

\* the positions of the symbols loader e cannot resolve
Unresolvable(e) == {k \in DOMAIN SymbolOrder(e) : ~SymbolOrder(e)[k].found}

\* the dlsym calls of the log, in order
DlsymCalls(log) == SelectSeq(log, LAMBDA c : c[1] = "dlsym")

\* C12: a call of lib_init that loads both libraries resolves the symbols in
\* list order, kperf list then kperfdata list, up to and including the first
\* one that cannot be resolved and none after it; it then fails and the
\* recorded message names the library and that symbol.
C12_FailFastOnFirstSymbol ==
  [][(LibCallStep /\ ~lib_inited /\ dl_avail.kperf /\ dl_avail.kperfdata)
       => LET order == SymbolOrder(dl_avail)
              bad == Unresolvable(dl_avail)
              last == IF bad = {} THEN Len(order)
                      ELSE CHOOSE k \in bad : \A j \in bad : k <= j
              made == DlsymCalls(calls')
          IN /\ Len(made) = last
             /\ \A k \in 1..last :
                   /\ made[k][2] = order[k].name
                   /\ made[k][3] = Ptr(order[k].found)
             /\ ret' = (bad = {})
             /\ bad # {} =>
                   lib_err_msg' = "Failed to load " \o order[last].lib
                                    \o " function: " \o order[last].name
                                    \o "."]_vars

\* the second kperf symbol could not be resolved while later symbols of both
\* lists are missing too: two dlsym calls were made
C12_Witness ==
  /\ op = "lib_init" /\ ret = FALSE
  /\ dl_avail.kperf /\ dl_avail.kperfdata
  /\ Unresolvable(dl_avail) = DOMAIN SymbolOrder(dl_avail) \ {1}
  /\ Len(DlsymCalls(calls)) = 2
  /\ lib_err_msg = "Failed to load kperf function: kpc_cpu_string."

\* ------------------------------------------------------------------------
\* Specification of get_event alone: one call on an alias and a database
\* drawn from bounded sets
\* ------------------------------------------------------------------------

\* the candidate names of the "cycles" alias (counters.c:888-893)
TestNames == {"FIXED_CYCLES", "CPU_CLK_UNHALTED.THREAD",
              "CPU_CLK_UNHALTED.CORE"}

\* names arrays: the first MaxCandidates entries are free (NULL included),
\* the remaining entries all hold the same name or all NULL
NamesArrays ==
  {[j \in 1..EVENT_NAME_MAX |-> IF j <= MaxCandidates THEN h[j] ELSE t] :
     h \in [1..MaxCandidates -> TestNames \cup {NULL}],
     t \in TestNames \cup {NULL}}

InitResolve ==
  /\ LibIdle
  /\ dl_avail = AllAvailable
  /\ alias_in \in [alias : {"cycles"}, names : NamesArrays]
  /\ db \in {OpenDb(d) : d \in SUBSET TestNames}
  /\ ProgRestIdle
  /\ KernIdle
  /\ ev_out = NULL
  /\ DecIdle /\ ColIdle /\ WaitIdle /\ ReadIdle
  /\ op = "none" /\ ret = NULL /\ calls = <<>> /\ n_calls = 0

\* a call of get_event
GetEventCall ==
  /\ op = "none"
  /\ ev_out' = get_event(db, alias_in)
  /\ op' = "get_event"
  /\ UNCHANGED <<libvars, dl_avail, alias_in, progvars, kernvars, ret, calls,
                 n_calls, tracevars>>

NextResolve == GetEventCall

SpecResolve == InitResolve /\ [][NextResolve]_vars

\* the entries get_event may look at: those before the first NULL entry
Scanned(a) ==
  {j \in 1..EVENT_NAME_MAX : \A k \in 1..j : a.names[k] # NULL}

\* the scanned entries whose name the database defines
Matching(d, a) == {j \in Scanned(a) : a.names[j] \in d.events}

FirstMatching(d, a) ==
  CHOOSE j \in Matching(d, a) : \A k \in Matching(d, a) : j <= k

\* C1: get_event returns the event of the first name, in list order, that
\* the database defines, among the entries before the first NULL entry and
\* within EVENT_NAME_MAX entries; it returns NULL when there is none.
C1_FirstMatchingCandidate ==
  op = "get_event" =>
    IF Matching(db, alias_in) = {}
      THEN ev_out = NULL
      ELSE ev_out = alias_in.names[FirstMatching(db, alias_in)]

\* several candidates match, the first of them is not the first entry, and
\* a name of the database sits behind a NULL entry
C1_Witness ==
  /\ op = "get_event"
  /\ Cardinality(Matching(db, alias_in)) >= 2
  /\ FirstMatching(db, alias_in) > 1
  /\ \E j \in Matching(db, alias_in) : alias_in.names[j] # ev_out
  /\ \E j \in 1..EVENT_NAME_MAX :
        j \notin Scanned(alias_in) /\ alias_in.names[j] \in db.events
  /\ ev_out = alias_in.names[FirstMatching(db, alias_in)]

\* ------------------------------------------------------------------------
\* Counting session: performance_counters_init, _start and _stop
\* ------------------------------------------------------------------------

Pad(names) ==
  [j \in 1..EVENT_NAME_MAX |-> IF j <= Len(names) THEN names[j] ELSE NULL]

\* the table of aliases; entry i here is profile_events[i - 1] of the source
profile_events ==
  << [alias |-> "cycles",
      names |-> Pad(<<"FIXED_CYCLES", "CPU_CLK_UNHALTED.THREAD",
                      "CPU_CLK_UNHALTED.CORE">>)],
     [alias |-> "instructions",
      names |-> Pad(<<"FIXED_INSTRUCTIONS", "INST_RETIRED.ANY">>)],
     [alias |-> "branches",
      names |-> Pad(<<"INST_BRANCH", "BR_INST_RETIRED.ALL_BRANCHES",
                      "INST_RETIRED.ANY">>)],
     [alias |-> "branch-misses",
      names |-> Pad(<<"BRANCH_MISPRED_NONSPEC", "BRANCH_MISPREDICT",
                      "BR_MISP_RETIRED.ALL_BRANCHES",
                      "BR_INST_RETIRED.MISPRED">>)] >>

kpep_config_error_names ==
  <<"none", "invalid argument", "out of memory", "I/O", "buffer too small",
    "current system unknown", "database path invalid", "database not found",
    "database architecture unsupported", "database version unsupported",
    "database corrupt", "event not found", "conflicting events",
    "all counters must be forced", "event unavailable", "check errno">>

kpep_config_error_desc(code) ==
  IF 0 <= code /\ code < KPEP_CONFIG_ERROR_MAX
    THEN kpep_config_error_names[code + 1]
    ELSE "unknown error"

\* c & mask # 0, for a mask of one bit
HasClass(c, mask) == (c \div mask) % 2 = 1

\* the kpc function pointers are usable when the kperf list is bound
KperfBound == \A i \in KperfSyms : impl_kperf[i]

\* what a call through a NULL function pointer returns to the caller: nothing,
\* the process is killed
CRASH == "SIGSEGV"

\* bookkeeping of a function body: a call made, and a return
Call(G, c, r) == [G EXCEPT !.calls = Append(@, <<c[1], c[2], r>>)]
Return(G, msg) == [G EXCEPT !.ret = msg, !.done = TRUE]

\* one statement after another: the state v the first leaves is the state the
\* rest, Body, starts from
Bind(v, Body(_)) == CHOOSE R \in {Body(w) : w \in {v}} : TRUE

\* an assignment: it leaves H unless the function has returned
Assign(G, H) == IF G.done THEN G ELSE H

\* mutant of Checked: the result of the call is not tested
Checked_ignores_failure(G, c, r, msg, Gok) ==
  IF G.done THEN G ELSE Call(Gok, c, r)

\* one checked call `if ((ret = f(...))) return msg;`: r is what f returns,
\* Gok the state f leaves when it succeeds
Checked(G, c, r, msg, Gok) ==
  IF G.done THEN G
  ELSE IF r # 0 THEN Return(Call(G, c, r), msg)
  ELSE Call(Gok, c, r)

\* mutant of Unchecked: the result of the call is tested and returned
Unchecked_propagates(G, c, r, Gok) ==
  Checked(G, c, r, "Failed teardown", Gok)

\* one unchecked call `f(...);`
Unchecked(G, c, r, Gok) ==
  IF G.done THEN G
  ELSE IF r # 0 THEN Call(G, c, r)
  ELSE Call(Gok, c, r)

\* the result of call c in environment E: E.code when c is the call that E
\* makes fail, 0 otherwise
Res(E, c) == IF E.fail = c THEN E.code ELSE 0

\* mutant of resolve_events: an alias that is not found does not end init
RECURSIVE resolve_events_ignores_null(_, _)
resolve_events_ignores_null(G, i) ==
  IF G.done \/ i > ev_count THEN G
  ELSE Bind(get_event(G.db, profile_events[i]), LAMBDA ev :
       Bind([Call(G, <<"get_event", profile_events[i].alias>>,
                  Ptr(ev # NULL)) EXCEPT !.ev_arr[i] = ev], LAMBDA G1 :
         resolve_events_ignores_null(G1, i + 1)))

\* the loop "get events" of performance_counters_init, from alias i
RECURSIVE resolve_events(_, _)
resolve_events(G, i) ==
  IF G.done \/ i > ev_count THEN G
  ELSE Bind(get_event(G.db, profile_events[i]), LAMBDA ev :
       Bind([Call(G, <<"get_event", profile_events[i].alias>>,
                  Ptr(ev # NULL)) EXCEPT !.ev_arr[i] = ev], LAMBDA G1 :
         IF ev = NULL THEN Return(G1, profile_events[i].alias)
         ELSE resolve_events(G1, i + 1)))

\* mutant of add_events: the loop ends after the first event
add_events_first_only(G, i, E) ==
  IF G.done \/ i > ev_count THEN G
  ELSE Bind(IF E.at = i THEN Res(E, "kpep_config_add_event") ELSE 0,
            LAMBDA r :
       Bind(Call(G, <<"kpep_config_add_event", G.ev_arr[i]>>, r), LAMBDA G1 :
         IF r # 0
           THEN Return([G1 EXCEPT !.cfg.conflict = E.conflict],
                       kpep_config_error_desc(r))
         ELSE [G1 EXCEPT !.cfg.events = Append(@, G.ev_arr[i])]))

\* mutant of add_events: the events are added last to first
RECURSIVE add_events_backwards(_, _, _)
add_events_backwards(G, i, E) ==
  IF G.done \/ i > ev_count THEN G
  ELSE Bind(IF E.at = i THEN Res(E, "kpep_config_add_event") ELSE 0,
            LAMBDA r :
       Bind(Call(G, <<"kpep_config_add_event", G.ev_arr[ev_count + 1 - i]>>,
                 r), LAMBDA G1 :
         IF r # 0
           THEN Return([G1 EXCEPT !.cfg.conflict = E.conflict],
                       kpep_config_error_desc(r))
         ELSE Bind([G1 EXCEPT !.cfg.events =
                                Append(@, G.ev_arr[ev_count + 1 - i])],
                   LAMBDA G2 : add_events_backwards(G2, i + 1, E))))

\* the loop "add event to config" of performance_counters_init, from event i
RECURSIVE add_events(_, _, _)
add_events(G, i, E) ==
  IF G.done \/ i > ev_count THEN G
  ELSE Bind(IF E.at = i THEN Res(E, "kpep_config_add_event") ELSE 0,
            LAMBDA r :
       Bind(Call(G, <<"kpep_config_add_event", G.ev_arr[i]>>, r), LAMBDA G1 :
         IF r # 0
           THEN Return([G1 EXCEPT !.cfg.conflict = E.conflict],
                       kpep_config_error_desc(r))
         ELSE Bind([G1 EXCEPT !.cfg.events = Append(@, G.ev_arr[i])],
                   LAMBDA G2 : add_events(G2, i + 1, E))))

\* mutant of init_write_config: the registers are written for every class mask
init_write_config_always(G, E) ==
  Checked(G, <<"kpc_set_config", G.classes>>, Res(E, "kpc_set_config"),
          "Failed set kpc config", G)

\* the step "set config to kernel" after the reservation (counters.c:1028-1032)
init_write_config(G, E) ==
  IF HasClass(G.classes, KPC_CLASS_CONFIGURABLE_MASK) /\ G.reg_count # 0
    THEN Checked(G, <<"kpc_set_config", G.classes>>,
                 Res(E, "kpc_set_config"), "Failed set kpc config", G)
    ELSE G

\* performance_counters_init on binding S and globals G in environment E;
\* the result holds the binding and the globals it leaves
performance_counters_init(S, G, E) ==
  Bind(lib_init(S, E.dl), LAMBDA L :
  Bind(IF ~L.ret THEN Return([G EXCEPT !.calls = L.calls], L.lib_err_msg)
       ELSE [G EXCEPT !.calls = L.calls], LAMBDA G1 :
  Bind(Checked(G1, <<"kpc_force_all_ctrs_get", 0>>,
               Res(E, "kpc_force_all_ctrs_get"),
               "Permission denied, xnu/kpc requires root privileges.\n",
               G1), LAMBDA G2 :
  Bind(Checked(Assign(G2, [G2 EXCEPT !.db = NoDb]),
               <<"kpep_db_create", "">>,
               Res(E, "kpep_db_create"),
               "Error: cannot load pmc database",
               [G2 EXCEPT !.db = OpenDb(E.catalog)]), LAMBDA G3 :
  Bind(Checked(Assign(G3, [G3 EXCEPT !.cfg = NoCfg]),
               <<"kpep_config_create", "">>,
               Res(E, "kpep_config_create"),
               kpep_config_error_desc(Res(E, "kpep_config_create")),
               [G3 EXCEPT !.cfg = [NoCfg EXCEPT !.created = TRUE]]),
       LAMBDA G4 :
  Bind(Checked(G4, <<"kpep_config_force_counters", "">>,
               Res(E, "kpep_config_force_counters"),
               kpep_config_error_desc(Res(E, "kpep_config_force_counters")),
               [G4 EXCEPT !.cfg.forced = TRUE]), LAMBDA G5 :
  Bind(resolve_events(G5, 1), LAMBDA G6 :
  Bind(add_events(G6, 1, E), LAMBDA G7 :
  Bind(Checked(G7, <<"kpep_config_kpc_classes", "">>,
               Res(E, "kpep_config_kpc_classes"),
               kpep_config_error_desc(Res(E, "kpep_config_kpc_classes")),
               [G7 EXCEPT !.classes = E.classes]), LAMBDA G8 :
  Bind(Checked(G8, <<"kpep_config_kpc_count", "">>,
               Res(E, "kpep_config_kpc_count"),
               kpep_config_error_desc(Res(E, "kpep_config_kpc_count")),
               [G8 EXCEPT !.reg_count = E.reg_count]), LAMBDA G9 :
  Bind(Checked(G9, <<"kpep_config_kpc_map", "">>,
               Res(E, "kpep_config_kpc_map"),
               kpep_config_error_desc(Res(E, "kpep_config_kpc_map")),
               [G9 EXCEPT !.counter_map = E.map]), LAMBDA G10 :
  Bind(Checked(G10, <<"kpep_config_kpc", "">>,
               Res(E, "kpep_config_kpc"),
               "Failed get kpc registers", G10), LAMBDA G11 :
  Bind(Checked(G11, <<"kpc_force_all_ctrs_set", 1>>,
               Res(E, "kpc_force_all_ctrs_set"),
               "Failed force all ctrs",
               [G11 EXCEPT !.kpc_force_all_ctrs = 1]), LAMBDA G12 :
  Bind(init_write_config(G12, E), LAMBDA G13 :
    [lib |-> L, prog |-> IF G13.done THEN G13 ELSE Return(G13, NULL)]
  ))))))))))))))

\* mutant of delta: the counter of event i is taken to be counter i
delta_unmapped(G, i) ==
  (G.counters_1[i - 1] - G.counters_0[i - 1]) % WordMod

\* values[i] of performance_counters_stop (counters.c:1072-1073), in
\* unsigned arithmetic
delta(G, i) ==
  (G.counters_1[G.counter_map[i]] - G.counters_0[G.counter_map[i]]) % WordMod

\* mutant of performance_counters_start: the snapshot is read first
performance_counters_start_reads_first(G, E) ==
  Bind(Checked(G, <<"kpc_get_thread_counters", "counters_0">>,
               E.get_thread_counters,
               "Failed get thread counters before",
               [G EXCEPT !.counters_0 = E.snapshot]), LAMBDA G1 :
  Bind(Checked(G1, <<"kpc_set_counting", G.classes>>, E.set_counting,
               "Failed set counting",
               [G1 EXCEPT !.kpc_counting = G.classes]), LAMBDA G2 :
  Bind(Checked(G2, <<"kpc_set_thread_counting", G.classes>>,
               E.set_thread_counting, "Failed set thread counting",
               [G2 EXCEPT !.kpc_thread_counting = G.classes]), LAMBDA G3 :
    IF G3.done THEN G3 ELSE Return(G3, NULL))))

performance_counters_start(G, E) ==
  Bind(Checked(G, <<"kpc_set_counting", G.classes>>, E.set_counting,
               "Failed set counting",
               [G EXCEPT !.kpc_counting = G.classes]), LAMBDA G1 :
  Bind(Checked(G1, <<"kpc_set_thread_counting", G.classes>>,
               E.set_thread_counting, "Failed set thread counting",
               [G1 EXCEPT !.kpc_thread_counting = G.classes]), LAMBDA G2 :
  Bind(Checked(G2, <<"kpc_get_thread_counters", "counters_0">>,
               E.get_thread_counters,
               "Failed get thread counters before",
               [G2 EXCEPT !.counters_0 = E.snapshot]), LAMBDA G3 :
    IF G3.done THEN G3 ELSE Return(G3, NULL))))

\* mutant of stop_teardown: thread counting is disabled before global counting
stop_teardown_thread_first(G, E) ==
  Bind(Unchecked(G, <<"kpc_set_thread_counting", 0>>,
                 E.set_thread_counting,
                 [G EXCEPT !.kpc_thread_counting = 0]), LAMBDA G1 :
  Bind(Unchecked(G1, <<"kpc_set_counting", 0>>, E.set_counting,
                 [G1 EXCEPT !.kpc_counting = 0]), LAMBDA G2 :
    Unchecked(G2, <<"kpc_force_all_ctrs_set", 0>>, E.force_all_ctrs_set,
              [G2 EXCEPT !.kpc_force_all_ctrs = 0])))

\* the block "stop counting" of performance_counters_stop
stop_teardown(G, E) ==
  Bind(Unchecked(G, <<"kpc_set_counting", 0>>, E.set_counting,
                 [G EXCEPT !.kpc_counting = 0]), LAMBDA G1 :
  Bind(Unchecked(G1, <<"kpc_set_thread_counting", 0>>,
                 E.set_thread_counting,
                 [G1 EXCEPT !.kpc_thread_counting = 0]), LAMBDA G2 :
    Unchecked(G2, <<"kpc_force_all_ctrs_set", 0>>, E.force_all_ctrs_set,
              [G2 EXCEPT !.kpc_force_all_ctrs = 0])))

performance_counters_stop(G, E) ==
  Bind(Checked(G, <<"kpc_get_thread_counters", "counters_1">>,
               E.get_thread_counters,
               "Failed get thread counters after",
               [G EXCEPT !.counters_1 = E.snapshot]), LAMBDA G1 :
  Bind(stop_teardown(G1, E), LAMBDA G2 :
    IF G2.done THEN G2
    ELSE Return([G2 EXCEPT !.values =
                   [i \in DOMAIN @ |-> IF i <= 4 THEN delta(G2, i)
                                                 ELSE @[i]]], NULL)))

\* ------------------------------------------------------------------------
\* The environments of the three calls
\* ------------------------------------------------------------------------

\* what a kpc call returns: 0, or an error
KpcRets == {0, -1}

\* the error codes the failing call of an init returns: conflicting events,
\* counters not forced, and a code outside the table of descriptions
FailCodes == {12, 13, 16}
\* the maps of the kpep library: event i on counter (a * i + b) mod the
\* number of counters in use
EventMaps ==
  {[i \in Events |-> (a * i + b) % (MaxReg + 1)] : a \in 0..1, b \in 0..MaxReg}

\* event databases: Apple cores, Intel Core, one without branch events, and
\* an empty one
DbApple == {"FIXED_CYCLES", "FIXED_INSTRUCTIONS", "INST_BRANCH",
            "BRANCH_MISPRED_NONSPEC", "BRANCH_MISPREDICT"}
DbIntelCore == {"CPU_CLK_UNHALTED.THREAD", "CPU_CLK_UNHALTED.CORE",
                "INST_RETIRED.ANY", "BR_INST_RETIRED.ALL_BRANCHES",
                "BR_MISP_RETIRED.ALL_BRANCHES"}
DbNoBranches == {"FIXED_CYCLES", "FIXED_INSTRUCTIONS"}
FullDbs == {DbApple, DbIntelCore}
PartialDbs == {DbNoBranches, {}}

\* what the kpep library computes for the events: class mask, number of
\* configuration registers, event -> counter map
ClassMasks == {KPC_CLASS_FIXED_MASK,
               KPC_CLASS_FIXED_MASK + KPC_CLASS_CONFIGURABLE_MASK}
Configs == [classes : ClassMasks, reg_count : 0..MaxRegCount,
            map : EventMaps]
DefConfig == [classes |-> KPC_CLASS_FIXED_MASK, reg_count |-> 0,
              map |-> [i \in Events |-> 0]]

\* the loader in a session: everything available, or one thing missing
DlSession ==
  {e \in DlEnv :
     Cardinality({l \in {"kperf", "kperfdata"} :
                    ~(IF l = "kperf" THEN e.kperf ELSE e.kperfdata)})
       + Cardinality(KperfSyms \ e.sym_kperf)
       + Cardinality(KperfdataSyms \ e.sym_kperfdata) <= 1}

\* the environment of one call of init: the loader, the database, the
\* configuration, and the call f that fails with code c (at event a, for
\* kpep_config_add_event); the calls after a failing call are never made
InitEnv(e, d, k, f, c, a) ==
  [dl |-> e, catalog |-> d, classes |-> k.classes,
   reg_count |-> k.reg_count, map |-> k.map, fail |-> f, code |-> c,
   at |-> a, conflict |-> 0]

\* the conflict bitmaps of a kpep_config_add_event that fails with code c at
\* event a: for conflicting events, bit j set means input index j conflicts;
\* event a conflicts alone or with one of the events added before it
ConflictBitmaps(c, a) ==
  IF c = 12
    THEN {2 ^ (a - 1) + (IF j = a THEN 0 ELSE 2 ^ (j - 1)) : j \in 1..a}
    ELSE {0}

\* the configurations of a session: the configurable class comes with
\* configuration registers, the fixed class alone with none
SessionConfigs ==
  {k \in Configs :
     k.reg_count = IF HasClass(k.classes, KPC_CLASS_CONFIGURABLE_MASK)
                     THEN MaxRegCount ELSE 0}

\* an init whose calls all succeed, or whose reservation or register write
\* fails
LateEnvs ==
  {InitEnv(AllAvailable, DbApple, k, "none", 0, 0) : k \in Configs}
  \cup {InitEnv(AllAvailable, DbApple, k, f, -1, 0) :
          k \in SessionConfigs,
          f \in {"kpc_force_all_ctrs_set", "kpc_set_config"}}

\* the environments of init in a session: the binding fails, the permission
\* check fails, an alias is not found, the reservation fails, the register
\* write fails, or init succeeds with a configuration of the session
SessionInitEnvs ==
  {InitEnv([AllAvailable EXCEPT !.kperf = FALSE], DbApple, DefConfig,
           "none", 0, 0),
   InitEnv(AllAvailable, DbApple, DefConfig, "kpc_force_all_ctrs_get",
           -1, 0),
   InitEnv(AllAvailable, DbNoBranches, DefConfig, "none", 0, 0),
   InitEnv(AllAvailable, DbApple, DefConfig, "kpc_force_all_ctrs_set",
           -1, 0)}
  \cup {InitEnv(AllAvailable, DbApple, k, "kpc_set_config", -1, 0) :
          k \in {c \in SessionConfigs : c.map = DefConfig.map}}
  \cup {InitEnv(AllAvailable, DbApple, k, "none", 0, 0) :
          k \in SessionConfigs}

\* the environments of init explored on its own: every loader failure, every
\* failing call, every database
InitEnvs ==
  {InitEnv(e, DbApple, DefConfig, "none", 0, 0) : e \in DlSession}
  \cup {InitEnv(AllAvailable, DbApple, DefConfig, "kpc_force_all_ctrs_get",
                -1, 0)}
  \cup {InitEnv(AllAvailable, DbApple, DefConfig, f, c, 0) :
          f \in {"kpep_db_create", "kpep_config_create",
                 "kpep_config_force_counters"}, c \in FailCodes}
  \cup {InitEnv(AllAvailable, d, DefConfig, "none", 0, 0) :
          d \in PartialDbs \cup FullDbs}
  \cup UNION {{[InitEnv(AllAvailable, d, DefConfig,
                               "kpep_config_add_event", c, a)
                         EXCEPT !.conflict = b] : b \in ConflictBitmaps(c, a)} :
                  d \in FullDbs, c \in FailCodes, a \in Events}
  \cup {InitEnv(AllAvailable, DbApple, DefConfig, f, c, 0) :
          f \in {"kpep_config_kpc_classes", "kpep_config_kpc_count",
                 "kpep_config_kpc_map", "kpep_config_kpc"},
          c \in FailCodes}
  \cup {InitEnv(AllAvailable, DbApple, k, f, 12, 0) :
          k \in SessionConfigs,
          f \in {"kpep_config_kpc_count", "kpep_config_kpc_map",
                 "kpep_config_kpc"}}
  \cup LateEnvs

\* counter snapshots: counter r reads base + r * step
Snap(base, step) == [r \in Registers |-> (base + r * step) % WordMod]
Snapshots == {Snap(10, 10), Snap(15, 30)}

NoSnapshot == [r \in Registers |-> 0]

\* the environments of start: the results of its three calls, and the
\* snapshot a successful read delivers
StartEnvs ==
  {e \in [set_counting : KpcRets, set_thread_counting : KpcRets,
          get_thread_counters : KpcRets, snapshot : {NoSnapshot}] :
     e.set_counting # 0 \/ e.set_thread_counting # 0
       \/ e.get_thread_counters # 0}
  \cup [set_counting : {0}, set_thread_counting : {0},
        get_thread_counters : {0}, snapshot : Snapshots]

\* the environments of stop: the results of its four calls, and the snapshot
\* a successful read delivers
StopEnvs ==
  [get_thread_counters : {-1}, snapshot : {NoSnapshot},
   set_counting : KpcRets, set_thread_counting : KpcRets,
   force_all_ctrs_set : KpcRets]
  \cup [get_thread_counters : {0}, snapshot : Snapshots,
        set_counting : KpcRets, set_thread_counting : KpcRets,
        force_all_ctrs_set : KpcRets]

\* ------------------------------------------------------------------------
\* Specification of the counting session: the three functions called in any
\* order, any number of times
\* ------------------------------------------------------------------------

Init ==
  /\ LibIdle
  /\ dl_avail = AllAvailable
  /\ ResIdle
  /\ ProgIdle
  /\ KernIdle
  /\ DecIdle /\ ColIdle /\ WaitIdle /\ ReadIdle
  /\ op = "none" /\ ret = NULL /\ calls = <<>> /\ n_calls = 0

\* the caller may make a call: the process is alive and calls are left
MayCall == ret # CRASH /\ n_calls < MaxCalls

Finish(name, G) ==
  /\ SetProg(G)
  /\ op' = name /\ ret' = G.ret /\ calls' = G.calls
  /\ n_calls' = n_calls + 1
  /\ UNCHANGED <<dl_avail, resvars, tracevars>>

\* a call through a NULL function pointer
NullCall(name) ==
  /\ op' = name /\ ret' = CRASH /\ calls' = <<>>
  /\ n_calls' = n_calls + 1
  /\ UNCHANGED <<libvars, dl_avail, resvars, progvars, kernvars, tracevars>>

InitCallIn(envs, budget) ==
  /\ ret # CRASH /\ n_calls < budget
  /\ \E E \in envs :
       \E R \in {performance_counters_init(LibState, ProgState, E)} :
         \E L \in {R.lib} : \E G \in {R.prog} :
           SetLib(L) /\ Finish("init", G)

InitCall == InitCallIn(SessionInitEnvs, MaxCalls)

StartCall ==
  /\ MayCall
  /\ IF ~KperfBound THEN NullCall("start")
     ELSE \E E \in StartEnvs :
            \E G \in {performance_counters_start(ProgState, E)} :
              Finish("start", G) /\ UNCHANGED libvars

StopCall ==
  /\ MayCall
  /\ IF ~KperfBound THEN NullCall("stop")
     ELSE \E E \in StopEnvs :
            \E G \in {performance_counters_stop(ProgState, E)} :
              Finish("stop", G) /\ UNCHANGED libvars

Next == InitCall \/ StartCall \/ StopCall

Spec == Init /\ [][Next]_vars

\* ------------------------------------------------------------------------
\* Specification of performance_counters_init alone, called again and again
\* in every environment
\* ------------------------------------------------------------------------

InitOnlyCall == InitCallIn(InitEnvs, MaxInits)

NextInit == InitOnlyCall

SpecInit == Init /\ [][NextInit]_vars

\* ------------------------------------------------------------------------
\* Properties of the counting session
\* ------------------------------------------------------------------------

\* the aliases none of whose candidate names the database defines
Unresolved(d) ==
  {i \in Events :
     \A j \in 1..EVENT_NAME_MAX : profile_events[i].names[j] \notin d.events}

FirstUnresolved(d) ==
  CHOOSE i \in Unresolved(d) : \A k \in Unresolved(d) : i <= k

\* C2: when init has opened a database that defines no candidate name of
\* some alias, get_event returned NULL for the first such alias, init
\* returned the display name of that alias, no event was added to the
\* configuration and no call that writes to the kernel was made.
C2_UnresolvedAliasReported ==
  (op = "init" /\ Made("get_event") # {} /\ Unresolved(db) # {}) =>
    LET i == FirstUnresolved(db)
        last == calls[Len(calls)]
    IN /\ ret = profile_events[i].alias
       /\ ev_arr[i] = NULL
       /\ last[1] = "get_event" /\ last[2] = profile_events[i].alias
       /\ last[3] = 0
       /\ cfg.events = <<>>
       /\ Made("kpep_config_add_event") = {}
       /\ Made("kpc_force_all_ctrs_set") = {}
       /\ Made("kpc_set_config") = {}
       /\ Made("kpc_set_counting") = {}
       /\ Made("kpc_set_thread_counting") = {}

\* init has returned "branches": cycles and instructions were found, the
\* database has no branch event
C2_Witness ==
  /\ op = "init" /\ ret = "branches"
  /\ db = OpenDb(DbNoBranches)
  /\ ev_arr[1] = "FIXED_CYCLES" /\ ev_arr[2] = "FIXED_INSTRUCTIONS"
  /\ ev_arr[3] = NULL
  /\ cfg.created /\ cfg.events = <<>>

\* C3: in start, every read of the 'before' snapshot comes after a
\* successful kpc_set_counting(classes) and a later successful
\* kpc_set_thread_counting(classes), no enable follows a read, and when an
\* enable fails no snapshot is read and an error is returned.
C3_SnapshotAfterBothEnables ==
  (op = "start" /\ ret # CRASH) =>
    /\ \A k \in Made("kpc_get_thread_counters") :
         /\ \E a \in MadeWith("kpc_set_counting", 0) :
              \E b \in MadeWith("kpc_set_thread_counting", 0) :
                 /\ a < b /\ b < k
                 /\ calls[a][2] = classes /\ calls[b][2] = classes
         /\ \A a \in Made("kpc_set_counting")
                       \cup Made("kpc_set_thread_counting") : a < k
    /\ (Failed("kpc_set_counting") \cup Failed("kpc_set_thread_counting")
          # {})
         => (Made("kpc_get_thread_counters") = {} /\ ret # NULL)

\* start has succeeded: both classes are counting and the snapshot was read
\* last
C3_Witness ==
  /\ op = "start" /\ ret = NULL
  /\ Len(calls) = 3 /\ calls[3][1] = "kpc_get_thread_counters"
  /\ classes # 0 /\ kpc_counting = classes /\ kpc_thread_counting = classes
  /\ counters_0 = Snap(10, 10)

\* C4: after a successful stop, values[i] = after[counter_map[i]] -
\* before[counter_map[i]] in unsigned arithmetic for the first 4 events;
\* before = [10, 20], after = [15, 45], map = [0, 1] gives [5, 25].
C4_DeltasThroughMap ==
  (op = "stop" /\ ret = NULL) =>
    /\ \A i \in 1..4 :
         values[i] = (counters_1[counter_map[i]]
                        - counters_0[counter_map[i]] + WordMod) % WordMod
    /\ (/\ counters_0[0] = 10 /\ counters_0[1] = 20
        /\ counters_1[0] = 15 /\ counters_1[1] = 45
        /\ counter_map[1] = 0 /\ counter_map[2] = 1)
         => (values[1] = 5 /\ values[2] = 25)

\* the example of the claim, after init, start and stop
C4_Witness ==
  /\ op = "stop" /\ ret = NULL
  /\ counters_0[0] = 10 /\ counters_0[1] = 20
  /\ counters_1[0] = 15 /\ counters_1[1] = 45
  /\ counter_map[1] = 0 /\ counter_map[2] = 1
  /\ values[1] = 5 /\ values[2] = 25

\* the three teardown calls of stop
TeardownCalls ==
  Made("kpc_set_counting") \cup Made("kpc_set_thread_counting")
    \cup Made("kpc_force_all_ctrs_set")

\* C5: on every return of stop the three teardown calls have been made, and
\* when none of them failed nothing counts any more and the reservation is
\* released.
C5_StopAlwaysTearsDown ==
  (op = "stop" /\ ret # CRASH) =>
    /\ Made("kpc_set_thread_counting") # {}
    /\ Made("kpc_set_counting") # {}
    /\ Made("kpc_force_all_ctrs_set") # {}
    /\ (\A k \in TeardownCalls : calls[k][3] = 0)
         => (/\ kpc_counting = 0 /\ kpc_thread_counting = 0
             /\ kpc_force_all_ctrs = 0)

\* C6, as claimed: after the read of the 'after' snapshot, stop disables
\* thread counting, then global counting, then releases the reservation.
C6_TeardownOrderAsClaimed ==
  (op = "stop" /\ ret = NULL) =>
    \E r \in Made("kpc_get_thread_counters") :
      \E t \in Made("kpc_set_thread_counting") :
        \E g \in Made("kpc_set_counting") :
          \E f \in Made("kpc_force_all_ctrs_set") :
            r < t /\ t < g /\ g < f

\* C6, amended: after the read of the 'after' snapshot, stop disables global
\* counting, then thread counting, then releases the reservation; these are
\* its only calls, each made once with argument 0.
C6_TeardownOrder ==
  (op = "stop" /\ ret = NULL) =>
    /\ Len(calls) = 4
    /\ calls[1][1] = "kpc_get_thread_counters"
    /\ calls[2][1] = "kpc_set_counting" /\ calls[2][2] = 0
    /\ calls[3][1] = "kpc_set_thread_counting" /\ calls[3][2] = 0
    /\ calls[4][1] = "kpc_force_all_ctrs_set" /\ calls[4][2] = 0

\* a stop that has torn a counting session down
C6_Witness ==
  /\ op = "stop" /\ ret = NULL /\ Len(calls) = 4
  /\ \A k \in 1..4 : calls[k][3] = 0
  /\ classes # 0
  /\ kpc_counting = 0 /\ kpc_thread_counting = 0 /\ kpc_force_all_ctrs = 0
  /\ counters_0 = Snap(10, 10) /\ counters_1 = Snap(15, 30)

\* C7: a stop returns an error exactly when its read of the 'after' snapshot
\* failed; then the caller's values are as before the call; otherwise the
\* values are the deltas of the two snapshots, whatever the teardown calls
\* returned.
C7_StopErrorIffReadFails ==
  [][(op' = "stop" /\ n_calls' = n_calls + 1 /\ ret' # CRASH) =>
       /\ calls'[1][1] = "kpc_get_thread_counters"
       /\ (ret' # NULL) <=> (calls'[1][3] # 0)
       /\ (calls'[1][3] # 0) => (values' = values)
       /\ (calls'[1][3] = 0) =>
            \A i \in 1..4 :
              values'[i] = (counters_1'[counter_map[i]]
                             - counters_0[counter_map[i]] + WordMod)
                           % WordMod]_vars

\* a stop has succeeded although its three teardown calls failed
C7_Witness ==
  /\ op = "stop" /\ ret = NULL
  /\ Failed("kpc_set_counting") # {}
  /\ Failed("kpc_set_thread_counting") # {}
  /\ Failed("kpc_force_all_ctrs_set") # {}
  /\ kpc_counting # 0 /\ kpc_force_all_ctrs = 1
  /\ values[2] = 25

\* C8: an init that has reserved the counters calls kpc_set_config exactly
\* when the class mask has the Configurable bit and the register count is
\* not zero; otherwise it makes no such call and returns success. An init
\* that did not get that far never calls kpc_set_config.
C8_WriteIffConfigurable ==
  op = "init" =>
    LET reserved == MadeWith("kpc_force_all_ctrs_set", 0) # {}
        needed == (classes % 4 >= KPC_CLASS_CONFIGURABLE_MASK)
                    /\ reg_count # 0
    IN /\ (Made("kpc_set_config") # {}) <=> (reserved /\ needed)
       /\ (reserved /\ ~needed) => ret = NULL

\* init has succeeded for a Fixed-only mask with no register, without a write
C8_Witness ==
  /\ op = "init" /\ ret = NULL
  /\ classes = KPC_CLASS_FIXED_MASK /\ reg_count = 0
  /\ Made("kpc_set_config") = {}
  /\ kpc_force_all_ctrs = 1

\* C13: an init whose hardware-access check kpc_force_all_ctrs_get fails
\* returns the permission-denied message and makes no later call: the
\* catalog is not opened, no configuration is created, no counters are
\* forced, nothing is written to the kernel, and the globals and the kernel
\* are left as they were.
C13_PermissionDeniedStopsInit ==
  [][(op' = "init" /\ n_calls' = n_calls + 1
        /\ Failed("kpc_force_all_ctrs_get")' # {})
       => (/\ ret' = "Permission denied, xnu/kpc requires root privileges.\n"
           /\ calls'[Len(calls')][1] = "kpc_force_all_ctrs_get"
           /\ \A f \in {"kpep_db_create", "kpep_config_create",
                         "kpep_config_force_counters", "get_event",
                         "kpep_config_add_event", "kpc_force_all_ctrs_set",
                         "kpc_set_config"} : Made(f)' = {}
           /\ UNCHANGED <<progvars, kernvars>>)]_vars

\* the platform was bound by this call, the access check failed, and init
\* has returned the permission-denied message
C13_Witness ==
  /\ op = "init" /\ KperfBound
  /\ Made("dlsym") # {}
  /\ Failed("kpc_force_all_ctrs_get") # {}
  /\ ret = "Permission denied, xnu/kpc requires root privileges.\n"
  /\ ~db.open /\ ~cfg.created /\ kpc_force_all_ctrs = 0

\* the calls of the log to function f, in order
CallsTo(f) == SelectSeq(calls, LAMBDA c : c[1] = f)

\* the place of a function in the sequence of steps of
\* performance_counters_init (counters.c:957-1032)
StepRank(f) ==
  CASE f \in {"dlopen", "dlsym", "dlclose"} -> 1
    [] f = "kpc_force_all_ctrs_get" -> 2
    [] f = "kpep_db_create" -> 3
    [] f = "kpep_config_create" -> 4
    [] f = "kpep_config_force_counters" -> 5
    [] f = "get_event" -> 6
    [] f = "kpep_config_add_event" -> 7
    [] f = "kpep_config_kpc_classes" -> 8
    [] f = "kpep_config_kpc_count" -> 9
    [] f = "kpep_config_kpc_map" -> 10
    [] f = "kpep_config_kpc" -> 11
    [] f = "kpc_force_all_ctrs_set" -> 12
    [] f = "kpc_set_config" -> 13

\* C14, as claimed: in an init, the configuration is created and its
\* counters are force-reserved only after every alias has been resolved.
C14_ConfigBuiltAfterResolution ==
  op = "init" =>
    \A k \in Made("kpep_config_create") \cup Made("kpep_config_force_counters") :
      Cardinality({j \in MadeWith("get_event", 1) : j < k}) = ev_count

\* C14, amended: the calls of an init follow the order of the source:
\* platform bound, access checked, catalog opened, configuration created and
\* its counters force-reserved, aliases resolved in alias list order, events
\* added in that order, class mask, register count, map and registers
\* queried, counters reserved in the kernel, registers written; no event
\* is added before every alias has been resolved and nothing is written to
\* the kernel before every event has been added.
C14_InitStepOrder ==
  op = "init" =>
    /\ \A j, k \in DOMAIN calls :
          j < k => /\ StepRank(calls[j][1]) <= StepRank(calls[k][1])
                   /\ StepRank(calls[j][1]) \notin {1, 6, 7}
                        => StepRank(calls[j][1]) < StepRank(calls[k][1])
    /\ \A k \in DOMAIN CallsTo("get_event") :
          CallsTo("get_event")[k][2] = profile_events[k].alias
    /\ \A k \in DOMAIN CallsTo("kpep_config_add_event") :
          CallsTo("kpep_config_add_event")[k][2] = ev_arr[k]
    /\ Made("kpep_config_add_event") # {}
          => Cardinality(MadeWith("get_event", 1)) = ev_count
    /\ Made("kpc_force_all_ctrs_set") \cup Made("kpc_set_config") # {}
          => Cardinality(MadeWith("kpep_config_add_event", 0)) = ev_count

\* an init has bound the platform and gone through every step, up to the
\* register write
C14_Witness ==
  /\ op = "init" /\ ret = NULL
  /\ Made("dlsym") # {}
  /\ MadeWith("kpc_set_config", 0) # {}
  /\ Len(CallsTo("get_event")) = ev_count
  /\ Len(CallsTo("kpep_config_add_event")) = ev_count
  /\ Cardinality({ev_arr[i] : i \in Events}) = ev_count

\* the configuration-building steps of performance_counters_init
ConfigSteps ==
  {"kpep_config_create", "kpep_config_force_counters",
   "kpep_config_add_event", "kpep_config_kpc_classes",
   "kpep_config_kpc_count", "kpep_config_kpc_map", "kpep_config_kpc"}

\* C15: when a configuration-building step of an init fails (create,
\* force-reserve, add an event, query class mask, register count, map or
\* register contents), no later step runs and init returns the description
\* of the error code that step returned.
C15_ConfigStepFailureAborts ==
  op = "init" =>
    \A k \in DOMAIN calls :
      (calls[k][1] \in ConfigSteps /\ calls[k][3] # 0)
        => /\ k = Len(calls)
           /\ ret = kpep_config_error_desc(calls[k][3])

\* an init has failed because the events it added conflict
ConflictFailed == op = "init" /\ MadeWith("kpep_config_add_event", 12) # {}

\* C16: the error init surfaces when adding an event fails on conflicting
\* events carries the bitmap of the conflicting input indices: two inits
\* that fail on different bitmaps surface different errors.
C16_ConflictBitmapSurfaced ==
  [][(ConflictFailed /\ ConflictFailed' /\ n_calls' = n_calls + 1
        /\ cfg'.conflict # cfg.conflict) => ret' # ret]_vars

\* C17: an init that fails at any step leaves no partial configuration
\* active: called while the counters are not reserved, it returns its error
\* with the forced-counter reservation of the kernel not in effect, also when
\* the failing step is the register write that follows the reservation.
C17_NoReservationAfterFailedInit ==
  [][(kpc_force_all_ctrs = 0 /\ op' = "init" /\ n_calls' = n_calls + 1
        /\ ret' # NULL) => kpc_force_all_ctrs' = 0]_vars

\* C18: when start fails after it has enabled global counting (enabling
\* thread counting fails, or the read of the 'before' snapshot fails),
\* counting is disabled again and the forced-counter reservation is released
\* on that error return.
C18_FailedStartTearsDown ==
  (op = "start" /\ ret \in {"Failed set thread counting",
                            "Failed get thread counters before"})
    => /\ kpc_counting = 0 /\ kpc_thread_counting = 0
       /\ kpc_force_all_ctrs = 0

\* C19, as claimed: after a successful init, the entry of the map of every
\* requested event is less than the register count, and so less than
\* KPC_MAX_COUNTERS.
C19_MapBelowRegisterCount ==
  (op = "init" /\ ret = NULL) =>
    \A i \in Events :
      counter_map[i] < reg_count /\ counter_map[i] < KPC_MAX_COUNTERS

\* C19, amended: after a successful init, the configuration holds exactly
\* the requested events, one per alias in request order, the map was queried
\* once for it, after the last event was added, and the entry of every
\* requested event is an index of the snapshot arrays; no entry is related
\* to the register count.
C19_MapEntryPerEvent ==
  (op = "init" /\ ret = NULL) =>
    /\ cfg.events = [i \in Events |-> ev_arr[i]]
    /\ Cardinality(MadeWith("kpep_config_kpc_map", 0)) = 1
    /\ \A k \in Made("kpep_config_add_event"), m \in Made("kpep_config_kpc_map") :
          k < m
    /\ DOMAIN counter_map = Events
    /\ \A i \in Events : counter_map[i] \in Registers

\* an init has succeeded with a register count that is not zero and a map
\* entry that is not below it
C19_Witness ==
  /\ op = "init" /\ ret = NULL
  /\ reg_count # 0
  /\ \E i \in Events : counter_map[i] >= reg_count
  /\ Len(cfg.events) = ev_count

\* ------------------------------------------------------------------------
\* Trace decode: the loop of main2 that reads the samples of the threads
\* from the records of the kernel trace (counters.c:1383-1421)
\* ------------------------------------------------------------------------

\* a record kd_buf: func is debugid & KDBG_FUNC_MASK, tid is arg5, args are
\* arg1..arg4

\* the statements `if (ci < counter_count) counters[ci++] = buf2->argj;`
\* for j, ..., 4
RECURSIVE take_words(_, _, _, _)
take_words(counters, args, j, cc) ==
  IF j > 4 THEN counters
  ELSE Bind(IF Len(counters) < cc THEN Append(counters, args[j])
            ELSE counters,
            LAMBDA c : Bind(j + 1, LAMBDA j1 : take_words(c, args, j1, cc)))

\* mutant of read_continuations: the thread id of a record is not compared
RECURSIVE read_continuations_any_thread(_, _, _, _, _)
read_continuations_any_thread(bufs, j, tid, counters, cc) ==
  IF j > Len(bufs) THEN counters
  ELSE IF bufs[j].func = "DBG_FUNC_START" THEN counters
  ELSE Bind(take_words(counters, bufs[j].args, 1, cc), LAMBDA c :
         IF Len(c) = cc THEN c
         ELSE Bind(j + 1, LAMBDA j1 :
                read_continuations_any_thread(bufs, j1, tid, c, cc)))

\* the inner loop over buf2, from record j: the words of the records that
\* continue the sample of thread tid
RECURSIVE read_continuations(_, _, _, _, _)
read_continuations(bufs, j, tid, counters, cc) ==
  IF j > Len(bufs) THEN counters
  ELSE IF bufs[j].tid # tid THEN counters
  ELSE IF bufs[j].func = "DBG_FUNC_START" THEN counters
  ELSE Bind(take_words(counters, bufs[j].args, 1, cc), LAMBDA c :
         IF Len(c) = cc THEN c
         ELSE Bind(j + 1, LAMBDA j1 :
                read_continuations(bufs, j1, tid, c, cc)))

\* mutant of decode_from: a sample short of words is kept, filled with zeros
RECURSIVE decode_from_keeps_truncated(_, _, _)
decode_from_keeps_truncated(bufs, k, cc) ==
  IF k > Len(bufs) THEN <<>>
  ELSE Bind(k + 1, LAMBDA k1 :
    IF bufs[k].func # "DBG_FUNC_START"
      THEN decode_from_keeps_truncated(bufs, k1, cc)
    ELSE IF bufs[k].tid = 0 THEN decode_from_keeps_truncated(bufs, k1, cc)
    ELSE Bind(IF 4 < cc
                THEN read_continuations(bufs, k1, bufs[k].tid,
                                        bufs[k].args, cc)
                ELSE bufs[k].args, LAMBDA c :
           << [tid |-> bufs[k].tid, timestamp |-> bufs[k].timestamp,
               counters |-> [i \in 1..cc |->
                               IF i <= Len(c) THEN c[i] ELSE 0]] >>
             \o decode_from_keeps_truncated(bufs, k1, cc)))

\* the outer loop over buf, from record k: the samples read, in order
RECURSIVE decode_from(_, _, _)
decode_from(bufs, k, cc) ==
  IF k > Len(bufs) THEN <<>>
  ELSE Bind(k + 1, LAMBDA k1 :
    IF bufs[k].func # "DBG_FUNC_START" THEN decode_from(bufs, k1, cc)
    ELSE IF bufs[k].tid = 0 THEN decode_from(bufs, k1, cc)
    ELSE Bind(IF 4 < cc
                THEN read_continuations(bufs, k1, bufs[k].tid,
                                        bufs[k].args, cc)
                ELSE bufs[k].args, LAMBDA c :
           IF Len(c) # cc THEN decode_from(bufs, k1, cc)
           ELSE << [tid |-> bufs[k].tid, timestamp |-> bufs[k].timestamp,
                    counters |-> c] >> \o decode_from(bufs, k1, cc)))

decode(bufs, cc) == decode_from(bufs, 1, cc)

\* an entry of thread_data after memset(data, 0, ...) and data->tid = tid
new_thread_data(tid) ==
  [tid |-> tid, timestamp_0 |-> 0, timestamp_1 |-> 0,
   counters_0 |-> [r \in Registers |-> 0],
   counters_1 |-> [r \in Registers |-> 0]]

\* memcpy(dst, counters, counter_count * sizeof(u64))
copy_counters(dst, counters, cc) ==
  [r \in Registers |-> IF r < cc THEN counters[r + 1] ELSE dst[r]]

\* the search of thread_data for the entry of tid: its index, 0 for none
find_thread(td, tid) ==
  IF \E i \in DOMAIN td : td[i].tid = tid
    THEN CHOOSE i \in DOMAIN td :
           /\ td[i].tid = tid
           /\ \A j \in DOMAIN td : td[j].tid = tid => i <= j
    ELSE 0

\* mutant of store_sample: a sample after the second one is not stored
store_sample_keeps_second(data, s, cc) ==
  IF data.timestamp_0 = 0
    THEN [data EXCEPT !.timestamp_0 = s.timestamp,
                      !.counters_0 = copy_counters(@, s.counters, cc)]
  ELSE IF data.timestamp_1 = 0
    THEN [data EXCEPT !.timestamp_1 = s.timestamp,
                      !.counters_1 = copy_counters(@, s.counters, cc)]
  ELSE data

\* mutant of store_sample: every sample is stored as the start snapshot
store_sample_always_start(data, s, cc) ==
  [data EXCEPT !.timestamp_0 = s.timestamp,
               !.counters_0 = copy_counters(@, s.counters, cc)]

\* the sample is the start snapshot of a thread that has none, else its end
\* snapshot
store_sample(data, s, cc) ==
  IF data.timestamp_0 = 0
    THEN [data EXCEPT !.timestamp_0 = s.timestamp,
                      !.counters_0 = copy_counters(@, s.counters, cc)]
    ELSE [data EXCEPT !.timestamp_1 = s.timestamp,
                      !.counters_1 = copy_counters(@, s.counters, cc)]

\* "add to thread data": the entry of the thread is found or appended, and
\* the sample is stored in it (the traces of the model hold fewer threads
\* than the first thread_capacity, 16: thread_data never grows)
add_to_thread_data(td, s, cc) ==
  Bind(find_thread(td, s.tid), LAMBDA i :
    IF i = 0
      THEN Append(td, store_sample(new_thread_data(s.tid), s, cc))
      ELSE [td EXCEPT ![i] = store_sample(@, s, cc)])

\* the samples k, k + 1, ... added to thread_data in the order of the loop
RECURSIVE aggregate_from(_, _, _, _)
aggregate_from(ss, k, td, cc) ==
  IF k > Len(ss) THEN td
  ELSE Bind(add_to_thread_data(td, ss[k], cc), LAMBDA td1 :
         Bind(k + 1, LAMBDA k1 : aggregate_from(ss, k1, td1, cc)))

aggregate(ss, cc) == aggregate_from(ss, 1, <<>>, cc)

\* counters_one of an entry: counters_1[c] - counters_0[c] for the first
\* counter_count counters, in unsigned arithmetic
counters_one(data, cc) ==
  [r \in Registers |->
     IF r < cc THEN (data.counters_1[r] - data.counters_0[r] + WordMod)
                      % WordMod
     ELSE 0]

\* mutant of has_both_snapshots: a thread with a start snapshot is reported
has_start_snapshot(data) == data.timestamp_0 # 0

\* the test of the report loop: the entry has both snapshots
has_both_snapshots(data) == data.timestamp_0 # 0 /\ data.timestamp_1 # 0

\* the entries of thread_data the report loop does not skip, in order
reported_threads(td) == SelectSeq(td, has_both_snapshots)

\* what the report loop prints for the threads: thread id, elapsed ticks
\* (handed to kperf_ticks_to_ns) and the value of every event
report_threads(td, cc, map) ==
  [k \in DOMAIN reported_threads(td) |->
     Bind(reported_threads(td)[k], LAMBDA data :
       Bind(counters_one(data, cc), LAMBDA one :
         [tid |-> data.tid,
          ticks |-> (data.timestamp_1 - data.timestamp_0 + WordMod)
                      % WordMod,
          counters |-> one,
          vals |-> [i \in Events |-> one[map[i]]]]))]

\* counters_sum after the report loop, from the lines k, k + 1, ...
RECURSIVE sum_from(_, _, _)
sum_from(lines, k, sum) ==
  IF k > Len(lines) THEN sum
  ELSE Bind([r \in Registers |-> (sum[r] + lines[k].counters[r]) % WordMod],
            LAMBDA sum1 : Bind(k + 1, LAMBDA k1 : sum_from(lines, k1, sum1)))

\* the decode, the aggregation and the report of main2 on the records bufs
\* for cc counters: without a record nothing is decoded
main2_report(bufs, cc, map) ==
  IF Len(bufs) = 0
    THEN [ret |-> "No thread PMC data collected.\n", samples |-> <<>>,
          thread_data |-> <<>>, reported |-> <<>>,
          counters_sum |-> [r \in Registers |-> 0]]
  ELSE Bind(decode(bufs, cc), LAMBDA ss :
        Bind(aggregate(ss, cc), LAMBDA td :
         Bind(report_threads(td, cc, map), LAMBDA lines :
          [ret |-> NULL, samples |-> ss, thread_data |-> td,
           reported |-> lines,
           counters_sum |-> sum_from(lines, 1, [r \in Registers |-> 0])])))

\* the event -> counter maps of the decode: every event on counter 0, or
\* event i on counter i - 1
DecodeMaps == {[i \in Events |-> 0], [i \in Events |-> i - 1]}

\* the thread ids of the records: none, and two threads
TraceTids == {0, 7, 8}

\* the records that may stand at place k of a trace: a start record holds
\* the words 4k-3 .. 4k, another record belongs to a thread and holds them
\* or, for thread 7, its first word and zeros; the timestamp of record k is k
TraceRecords(k) ==
  {[func |-> "DBG_FUNC_START", tid |-> t, timestamp |-> k,
    args |-> <<4 * k - 3, 4 * k - 2, 4 * k - 1, 4 * k>>] : t \in TraceTids}
  \cup {[func |-> "DBG_FUNC_NONE", tid |-> t, timestamp |-> k,
         args |-> <<4 * k - 3, 4 * k - 2, 4 * k - 1, 4 * k>>] :
          t \in TraceTids \ {0}}
  \cup {[func |-> "DBG_FUNC_NONE", tid |-> 7, timestamp |-> k,
         args |-> <<4 * k - 3, 0, 0, 0>>]}

\* the traces of n records
RECURSIVE TracesOfLen(_)
TracesOfLen(n) ==
  IF n = 0 THEN {<<>>}
  ELSE {Append(t, r) : t \in TracesOfLen(n - 1), r \in TraceRecords(n)}

Traces == UNION {TracesOfLen(n) : n \in 0..MaxBufs}

\* ------------------------------------------------------------------------
\* Specification of the trace decode alone: one run of the loop on a trace
\* and a number of counters drawn from bounded sets (with fewer than 4
\* counters, 3 here, no sample is ever complete)
\* ------------------------------------------------------------------------

InitDecode ==
  /\ LibIdle
  /\ dl_avail = AllAvailable
  /\ ResIdle
  /\ db = NoDb /\ cfg = NoCfg /\ ev_arr = [i \in Events |-> NULL]
  /\ classes = 0 /\ reg_count = 0
  /\ counter_map \in DecodeMaps
  /\ counters_0 = [r \in Registers |-> 0]
  /\ counters_1 = [r \in Registers |-> 0]
  /\ values = [i \in Events |-> 0]
  /\ KernIdle
  /\ kd_bufs \in Traces
  /\ counter_count \in 3..MaxCounterCount
  /\ samples = <<>>
  /\ thread_data = <<>> /\ reported = <<>>
  /\ counters_sum = [r \in Registers |-> 0]
  /\ ColIdle /\ WaitIdle /\ ReadIdle
  /\ op = "none" /\ ret = NULL /\ calls = <<>> /\ n_calls = 0

\* the decode loop runs over the trace
DecodeRun ==
  /\ op = "none"
  /\ \E R \in {main2_report(kd_bufs, counter_count, counter_map)} :
       /\ samples' = R.samples
       /\ thread_data' = R.thread_data
       /\ reported' = R.reported
       /\ counters_sum' = R.counters_sum
       /\ ret' = R.ret
  /\ op' = "decode"
  /\ UNCHANGED <<libvars, dl_avail, resvars, progvars, kernvars, calls,
                 n_calls, kd_bufs, counter_count, colvars, waitvars,
                 readvars>>

NextDecode == DecodeRun

SpecDecode == InitDecode /\ [][NextDecode]_vars

\* the number of records that immediately follow record k, belong to the
\* same thread and are not marked start
RECURSIVE RunAfter(_, _)
RunAfter(k, n) ==
  IF /\ k + n + 1 <= Len(kd_bufs)
     /\ kd_bufs[k + n + 1].tid = kd_bufs[k].tid
     /\ kd_bufs[k + n + 1].func # "DBG_FUNC_START"
    THEN RunAfter(k, n + 1) ELSE n

\* the records that begin a sample whose words are all there
CompleteStarts ==
  {k \in DOMAIN kd_bufs :
     /\ kd_bufs[k].func = "DBG_FUNC_START" /\ kd_bufs[k].tid # 0
     /\ counter_count <= 4 * (1 + RunAfter(k, 0))}

\* word i of the sample that record k begins
SampleWord(k, i) == kd_bufs[k + ((i - 1) \div 4)].args[((i - 1) % 4) + 1]

\* the j-th smallest element of a set of numbers
RECURSIVE Nth(_, _)
Nth(S, j) ==
  LET m == CHOOSE x \in S : \A y \in S : x <= y
  IN IF j = 1 THEN m ELSE Nth(S \ {m}, j - 1)

TruncatedStarts ==
  {k \in DOMAIN kd_bufs :
     /\ kd_bufs[k].func = "DBG_FUNC_START" /\ kd_bufs[k].tid # 0
     /\ counter_count > 4 * (1 + RunAfter(k, 0))}

\* the timestamps stored in thread_data
StoredTimestamps ==
  {thread_data[i].timestamp_0 : i \in DOMAIN thread_data}
    \cup {thread_data[i].timestamp_1 : i \in DOMAIN thread_data}

\* C21: a sample whose continuation scan stops (differing thread id, start
\* record, end of the trace) before counter_count words were collected is
\* not decoded, is the start or end snapshot of no thread, and no entry of
\* thread_data exists for a thread all of whose samples are truncated.
C21_TruncatedSampleDiscarded ==
  (op = "decode" /\ counter_count >= 4) =>
    \A k \in TruncatedStarts :
      /\ \A j \in DOMAIN samples : samples[j].timestamp # kd_bufs[k].timestamp
      /\ kd_bufs[k].timestamp \notin StoredTimestamps
      /\ (\A m \in CompleteStarts : kd_bufs[m].tid # kd_bufs[k].tid)
           => \A i \in DOMAIN thread_data :
                thread_data[i].tid # kd_bufs[k].tid

\* register count 5, a start record of thread 7 and then a record of another
\* thread: nothing is decoded and thread 7 has no entry
C21_Witness ==
  /\ op = "decode" /\ counter_count = 5
  /\ Len(kd_bufs) = 2
  /\ kd_bufs[1].func = "DBG_FUNC_START" /\ kd_bufs[1].tid = 7
  /\ kd_bufs[2].tid # 7
  /\ 1 \in TruncatedStarts
  /\ samples = <<>> /\ thread_data = <<>>

\* the records that begin a complete sample of thread t
StartsOf(t) == {k \in CompleteStarts : kd_bufs[k].tid = t}

\* the first and the last record of a set of records
FirstOf(S) == CHOOSE k \in S : \A m \in S : k <= m
LastOf(S) == CHOOSE k \in S : \A m \in S : m <= k

\* the entries of thread_data of thread t
EntriesOf(t) == {i \in DOMAIN thread_data : thread_data[i].tid = t}

\* the snapshot (ts, ctrs) is the sample that record k begins
SnapshotIs(ts, ctrs, k) ==
  /\ ts = kd_bufs[k].timestamp
  /\ \A r \in 0..(counter_count - 1) : ctrs[r] = SampleWord(k, r + 1)

\* C22: a thread with exactly two complete samples has exactly one entry of
\* thread_data, whose start snapshot (timestamp and counters) is the first
\* sample and whose end snapshot is the second; no thread id has two entries.
C22_TwoSamplesOneEntry ==
  (op = "decode" /\ counter_count >= 4) =>
    /\ \A i, j \in DOMAIN thread_data :
         thread_data[i].tid = thread_data[j].tid => i = j
    /\ \A t \in TraceTids :
         Cardinality(StartsOf(t)) = 2 =>
           /\ Cardinality(EntriesOf(t)) = 1
           /\ \A i \in EntriesOf(t) :
                /\ SnapshotIs(thread_data[i].timestamp_0,
                              thread_data[i].counters_0, FirstOf(StartsOf(t)))
                /\ SnapshotIs(thread_data[i].timestamp_1,
                              thread_data[i].counters_1, LastOf(StartsOf(t)))

\* thread 7 has two complete samples of 5 counters, each split over two
\* records, and one entry with both snapshots
C22_Witness ==
  /\ op = "decode" /\ counter_count = 5
  /\ StartsOf(7) = {1, 3}
  /\ Len(thread_data) = 1 /\ thread_data[1].tid = 7
  /\ thread_data[1].timestamp_0 = kd_bufs[1].timestamp
  /\ thread_data[1].timestamp_1 = kd_bufs[3].timestamp
  /\ thread_data[1].counters_0[4] = kd_bufs[2].args[1]
  /\ thread_data[1].counters_1[4] = kd_bufs[4].args[1]

\* C23: a thread with more than two complete samples has its first complete
\* sample as start snapshot and its last complete sample as end snapshot;
\* the samples between them are in no snapshot.
C23_EndSlotOverwritten ==
  (op = "decode" /\ counter_count >= 4) =>
    \A t \in TraceTids :
      Cardinality(StartsOf(t)) > 2 =>
        /\ Cardinality(EntriesOf(t)) = 1
        /\ \A i \in EntriesOf(t) :
             /\ SnapshotIs(thread_data[i].timestamp_0,
                           thread_data[i].counters_0, FirstOf(StartsOf(t)))
             /\ SnapshotIs(thread_data[i].timestamp_1,
                           thread_data[i].counters_1, LastOf(StartsOf(t)))
        /\ \A k \in StartsOf(t) \ {FirstOf(StartsOf(t)), LastOf(StartsOf(t))} :
             kd_bufs[k].timestamp \notin StoredTimestamps

\* thread 7 has three complete samples; the second one is in no snapshot
C23_Witness ==
  /\ op = "decode"
  /\ Cardinality(StartsOf(7)) = 3
  /\ \E i \in DOMAIN thread_data :
       /\ thread_data[i].tid = 7
       /\ thread_data[i].timestamp_0 = kd_bufs[FirstOf(StartsOf(7))].timestamp
       /\ thread_data[i].timestamp_1 = kd_bufs[LastOf(StartsOf(7))].timestamp
       /\ thread_data[i].timestamp_0 < thread_data[i].timestamp_1

\* the threads with two complete samples or more
ThreadsWithBoth == {t \in TraceTids : Cardinality(StartsOf(t)) >= 2}

\* for every thread with two complete samples or more, the records that
\* begin its first and its last complete sample
FirstAndLast ==
  [t \in ThreadsWithBoth |->
     [first |-> FirstOf(StartsOf(t)), last |-> LastOf(StartsOf(t))]]

\* for register r, the sample that record l begins minus the sample that
\* record f begins
SampleDelta(f, l, r) ==
  IF r < counter_count
    THEN (SampleWord(l, r + 1) - SampleWord(f, r + 1) + WordMod) % WordMod
    ELSE 0

\* the sum for register r of the deltas of the threads of T, FL giving the
\* first and the last sample of each
RECURSIVE SumOfDeltas(_, _, _)
SumOfDeltas(FL, T, r) ==
  IF T = {} THEN 0
  ELSE LET t == CHOOSE x \in T : TRUE
       IN (SampleDelta(FL[t].first, FL[t].last, r)
             + SumOfDeltas(FL, T \ {t}, r)) % WordMod

\* C24: a thread with one complete sample only is not reported and adds
\* nothing to the sums: the threads reported are exactly those with a start
\* and an end snapshot, each once with its deltas, and counters_sum is the
\* per-register sum of the deltas of these threads.
C24_SingleSampleThreadNotEmitted ==
  (op = "decode" /\ counter_count >= 4) =>
    \A FL \in {FirstAndLast} :
      /\ {reported[k].tid : k \in DOMAIN reported} = DOMAIN FL
      /\ Len(reported) = Cardinality(DOMAIN FL)
      /\ \A k \in DOMAIN reported :
           \A t \in {reported[k].tid} \cap DOMAIN FL :
             /\ \A r \in Registers :
                  reported[k].counters[r]
                    = SampleDelta(FL[t].first, FL[t].last, r)
             /\ \A i \in Events :
                  reported[k].vals[i]
                    = SampleDelta(FL[t].first, FL[t].last, counter_map[i])
      /\ \A r \in Registers :
           counters_sum[r] = SumOfDeltas(FL, DOMAIN FL, r)

\* thread 7 has two complete samples and thread 8 one: thread 8 has an entry
\* with a start snapshot, only thread 7 is reported, and the sums are the
\* deltas of thread 7
C24_Witness ==
  /\ op = "decode" /\ counter_count = 4
  /\ Cardinality(StartsOf(7)) = 2 /\ Cardinality(StartsOf(8)) = 1
  /\ \E i \in DOMAIN thread_data :
       /\ thread_data[i].tid = 8
       /\ thread_data[i].timestamp_0 # 0 /\ thread_data[i].timestamp_1 = 0
  /\ Len(reported) = 1 /\ reported[1].tid = 7
  /\ counters_sum[0] # 0
  /\ \A r \in Registers : counters_sum[r] = reported[1].counters[r]

\* ------------------------------------------------------------------------
\* Collection loop of main2: the local buffer is grown, a batch of records
\* is read from the kernel behind the write position and compacted in
\* place, until the time is up (counters.c:1294-1364)
\* ------------------------------------------------------------------------

\* the content of a slot of the buffer that was never written
JUNK == [id |-> 0, cls |-> "junk", subcls |-> 0, code |-> 0]

\* record n of the kernel trace: thread PMC data, or a record that differs
\* from it in class (v = 0), subclass (v = 1) or code (v = 2)
TraceRecord(n, v) ==
  [id |-> n,
   cls |-> IF v = 0 THEN "DBG_MACH" ELSE "DBG_PERF",
   subcls |-> IF v = 1 THEN PERF_KPC - 1 ELSE PERF_KPC,
   code |-> IF v = 2 THEN PERF_KPC_DATA_THREAD - 1 ELSE PERF_KPC_DATA_THREAD]

\* the kinds of the records of one kernel read of len records: thread PMC
\* data (3), but for the record at place pos, if any
ReadKinds(len, pos) ==
  [j \in 1..len |-> IF j = pos THEN (len + pos) % 3 ELSE 3]

\* what one kdebug_trace_read delivers: it fails, or it returns 0 to nbufs
\* records of which one at most is not thread PMC data
KernelReads ==
  {[ret |-> -1, kinds |-> <<>>]}
  \cup {[ret |-> 0, kinds |-> ReadKinds(len, pos)] :
          len \in 0..nbufs, pos \in 0..nbufs}

\* the state of the loop as one value
LoopState ==
  [pc |-> pc, buf_hdr |-> buf_hdr, buf_capacity |-> buf_capacity,
   buf_mem |-> buf_mem, buf_cur |-> buf_cur, buf_end |-> buf_end,
   now |-> now, trace_read |-> trace_read]

SetLoop(S) ==
  /\ pc' = S.pc /\ buf_hdr' = S.buf_hdr /\ buf_capacity' = S.buf_capacity
  /\ buf_mem' = S.buf_mem /\ buf_cur' = S.buf_cur /\ buf_end' = S.buf_end
  /\ now' = S.now /\ trace_read' = S.trace_read

\* mutant of expand_buffer: the buffer is never grown
expand_buffer_skipped(S, ok) == S

\* mutant of expand_buffer: the new buffer does not hold the old records
expand_buffer_loses_records(S, ok) ==
  IF S.buf_end - S.buf_cur < nbufs
    THEN IF ok
      THEN [S EXCEPT !.buf_capacity = 2 * @,
                     !.buf_mem = [i \in 1..(2 * S.buf_capacity) |-> JUNK]]
      ELSE [S EXCEPT !.buf_hdr = FALSE, !.buf_mem = <<>>, !.pc = "teardown"]
    ELSE S

\* "expand local buffer for next read" (1305-1318): with buf_end less than
\* nbufs records behind buf_cur the capacity is doubled by realloc, which
\* keeps the contents; buf_cur and buf_end are moved to the new buffer, each
\* at the distance from the head it had in the old one; when realloc fails
\* the buffer is freed and the loop is left
expand_buffer(S, ok) ==
  IF S.buf_end - S.buf_cur < nbufs
    THEN IF ok
      THEN [S EXCEPT !.buf_capacity = 2 * @,
                     !.buf_mem = @ \o [i \in 1..S.buf_capacity |-> JUNK],
                     !.buf_cur = S.buf_cur,
                     !.buf_end = S.buf_end]
      ELSE [S EXCEPT !.buf_hdr = FALSE, !.buf_mem = <<>>, !.pc = "teardown"]
    ELSE S

\* kdebug_trace_read(buf_cur, ...): the records are written behind the write
\* position; count is their number, 0 when the read fails
trace_read_into(S, R) ==
  Bind(Len(S.trace_read), LAMBDA base :
    [S EXCEPT
       !.buf_mem = [i \in DOMAIN @ |->
                      IF i > S.buf_cur /\ i <= S.buf_cur + Len(R.kinds)
                        THEN TraceRecord(base + i - S.buf_cur,
                                         R.kinds[i - S.buf_cur])
                        ELSE @[i]],
       !.trace_read = @ \o [j \in 1..Len(R.kinds) |->
                              TraceRecord(base + j, R.kinds[j])]])

\* mutant of is_thread_pmc_data: the class alone is tested
is_perf_class(rec) == rec.cls = "DBG_PERF"

\* "keep only thread PMC data" (1329-1335)
is_thread_pmc_data(rec) ==
  /\ rec.cls = "DBG_PERF"
  /\ rec.subcls = PERF_KPC
  /\ rec.code = PERF_KPC_DATA_THREAD

\* the loop over the records read (1322-1338), from slot buf to slot end:
\* a record of thread PMC data is moved to the write position
RECURSIVE compact(_, _, _)
compact(S, buf, end) ==
  IF buf > end THEN S
  ELSE Bind(IF is_thread_pmc_data(S.buf_mem[buf])
              THEN [S EXCEPT !.buf_mem[S.buf_cur + 1] = S.buf_mem[buf],
                             !.buf_cur = @ + 1]
              ELSE S,
            LAMBDA S1 : Bind(buf + 1, LAMBDA b1 : compact(S1, b1, end)))

\* mutant of time_is_up: the loop is also left when nothing was kept
time_is_up_or_empty(S) ==
  S.now > total_profile_time + sample_period \/ S.buf_cur = 0

\* "stop when time is up" (1341-1343); begin is time 0
time_is_up(S) == S.now > total_profile_time + sample_period

\* one iteration of the loop (1301-1344): the sleep of two sample periods
\* and what the iteration takes more (overhead), the growth of the buffer
\* (realloc succeeds or not), the read R and the compaction, the time test
collect_iteration(S, overhead, ok, R) ==
  Bind([S EXCEPT !.now = @ + 2 * sample_period + overhead], LAMBDA S1 :
    Bind(expand_buffer(S1, ok), LAMBDA S2 :
      IF ~S2.buf_hdr THEN S2
      ELSE Bind(trace_read_into(S2, R), LAMBDA S3 :
             Bind(compact(S3, S3.buf_cur + 1, S3.buf_cur + Len(R.kinds)),
                  LAMBDA S4 :
                    IF time_is_up(S4) THEN [S4 EXCEPT !.pc = "teardown"]
                    ELSE S4))))

\* the calls of the teardown (1346-1355), each returning r
teardown_calls(r) ==
  << <<"kdebug_trace_enable", 0, r>>, <<"kdebug_reset", 0, r>>,
     <<"kperf_sample_set", 0, r>>, <<"kperf_lightweight_pet_set", 0, r>>,
     <<"kpc_set_counting", 0, r>>, <<"kpc_set_thread_counting", 0, r>>,
     <<"kpc_force_all_ctrs_set", 0, r>> >>

\* mutant of main2_teardown: without a buffer nothing is torn down
main2_teardown_needs_buffer(S, r) ==
  IF S.buf_hdr THEN teardown_calls(r) ELSE <<>>

\* "stop tracing", "stop counting" (1346-1355): the calls made once the loop
\* is left, whatever has become of the buffer
main2_teardown(S, r) == teardown_calls(r)

\* a call of the log has set what the function f sets to 0
Cleared(log, f) == \E k \in DOMAIN log : log[k] = <<f, 0, 0>>

\* what main2 does after the teardown (1357-1365): it reports that the
\* buffer could not be allocated or that nothing was collected, or goes on
\* to the decode
after_teardown(S) ==
  IF ~S.buf_hdr
    THEN [pc |-> "done", ret |-> "Failed to allocate memory for trace log.\n"]
  ELSE IF S.buf_cur = 0
    THEN [pc |-> "done", ret |-> "No thread PMC data collected.\n"]
  ELSE [pc |-> "decode", ret |-> NULL]

\* ------------------------------------------------------------------------
\* Specification of the collection of main2: from the allocation of the
\* local buffer to the end of the teardown, counting being on
\* ------------------------------------------------------------------------

InitCollect ==
  /\ LibIdle
  /\ dl_avail = AllAvailable
  /\ ResIdle
  /\ ProgIdle
  /\ kpc_counting = KPC_CLASS_FIXED_MASK
  /\ kpc_thread_counting = KPC_CLASS_FIXED_MASK
  /\ kpc_force_all_ctrs = 1
  /\ DecIdle /\ WaitIdle /\ ReadIdle
  /\ pc = "alloc" /\ buf_hdr = FALSE /\ buf_capacity = 0 /\ buf_mem = <<>>
  /\ buf_cur = 0 /\ buf_end = 0 /\ now = 0 /\ trace_read = <<>>
  /\ printed = <<>>
  /\ op = "none" /\ ret = NULL /\ calls = <<>> /\ n_calls = 0

\* "sample and get buffers" (1294-1300): malloc of nbufs * 2 records
\* succeeds or not; the loop is entered while buf_hdr is not NULL
AllocBuffer ==
  /\ pc = "alloc"
  /\ \E ok \in BOOLEAN :
       /\ buf_hdr' = ok
       /\ buf_capacity' = nbufs * 2
       /\ buf_end' = nbufs * 2
       /\ buf_mem' = IF ok THEN [i \in 1..(nbufs * 2) |-> JUNK] ELSE <<>>
       /\ pc' = IF ok THEN "collect" ELSE "teardown"
  /\ op' = "alloc"
  /\ UNCHANGED <<libvars, dl_avail, resvars, progvars, kernvars, decvars,
                 waitvars, readvars,
                 buf_cur, now, trace_read, printed, ret, calls, n_calls>>

\* one iteration of the collection loop
CollectStep ==
  /\ pc = "collect"
  /\ \E overhead \in 0..1 : \E R \in KernelReads :
       \E ok \in IF buf_end - buf_cur < nbufs THEN BOOLEAN ELSE {TRUE} :
         \E S \in {collect_iteration(LoopState, overhead, ok, R)} :
           SetLoop(S)
  /\ op' = "collect"
  /\ UNCHANGED <<libvars, dl_avail, resvars, progvars, kernvars, decvars,
                 waitvars, readvars,
                 printed, ret, calls, n_calls>>

\* the teardown and the return or the way on to the decode; the results of
\* the teardown calls are not looked at
Teardown ==
  /\ pc = "teardown"
  /\ \E r \in {0, -1} : \E log \in {main2_teardown(LoopState, r)} :
       /\ calls' = log
       /\ kpc_counting' =
            IF Cleared(log, "kpc_set_counting") THEN 0 ELSE kpc_counting
       /\ kpc_thread_counting' =
            IF Cleared(log, "kpc_set_thread_counting") THEN 0
            ELSE kpc_thread_counting
       /\ kpc_force_all_ctrs' =
            IF Cleared(log, "kpc_force_all_ctrs_set") THEN 0
            ELSE kpc_force_all_ctrs
  /\ \E A \in {after_teardown(LoopState)} :
       /\ pc' = A.pc /\ ret' = A.ret
       /\ printed' = IF A.ret = NULL THEN printed ELSE Append(printed, A.ret)
  /\ op' = "teardown"
  /\ UNCHANGED <<libvars, dl_avail, resvars, progvars, decvars, waitvars,
                 readvars,
                 buf_hdr, buf_capacity, buf_mem, buf_cur, buf_end, now,
                 trace_read, n_calls>>

NextCollect == AllocBuffer \/ CollectStep \/ Teardown

SpecCollect == InitCollect /\ [][NextCollect]_vars

\* the collection with every step taken when it can be: main2 runs on
SpecCollectFair == SpecCollect /\ WF_vars(NextCollect)

\* the records between the head of the buffer and the write position
Stored == SubSeq(buf_mem, 1, buf_cur)

\* C25: an iteration that starts with less headroom than nbufs (as the
\* loop measures it, from buf_cur to buf_end, which is never more than the
\* room up to the capacity) and whose
\* realloc succeeds doubles the capacity, which strictly increases; right
\* after the growth the write position is just past the records stored
\* before, and at the end of the iteration these are still at the head of
\* the buffer, unchanged and in their order, the write position not before
\* them, with room for the records as the capacity says.
C25_GrowthKeepsRecords ==
  [][(pc = "collect" /\ op' = "collect"
        /\ buf_end - buf_cur < nbufs /\ buf_hdr')
       => /\ buf_capacity' = 2 * buf_capacity
          /\ buf_capacity' > buf_capacity
          /\ expand_buffer(LoopState, TRUE).buf_cur = buf_cur
          /\ SubSeq(expand_buffer(LoopState, TRUE).buf_mem, 1, buf_cur)
               = Stored
          /\ Len(buf_mem') = buf_capacity'
          /\ buf_cur' >= buf_cur /\ buf_cur' <= buf_capacity'
          /\ SubSeq(buf_mem', 1, buf_cur) = Stored]_vars

\* the buffer has grown: it holds more records than its first capacity
C25_Witness ==
  /\ buf_hdr /\ buf_capacity = 4 * nbufs
  /\ buf_cur > 2 * nbufs
  /\ \A i \in 1..buf_cur : is_thread_pmc_data(buf_mem[i])

\* the records of a sequence that are thread PMC data: class DBG_PERF,
\* subclass PERF_KPC, code PERF_KPC_DATA_THREAD
PmcThreadData(recs) ==
  SelectSeq(recs, LAMBDA rec : /\ rec.cls = "DBG_PERF"
                               /\ rec.subcls = PERF_KPC
                               /\ rec.code = PERF_KPC_DATA_THREAD)

\* C26: after any number of iterations the buffer holds, between its head
\* and the write position, exactly the records read so far that are thread
\* PMC data, in arrival order, and no other record.
C26_CompactedInPlace ==
  buf_hdr => (/\ buf_cur <= Len(buf_mem)
              /\ Stored = PmcThreadData(trace_read))

\* records of the three other kinds were read and dropped, and records kept
C26_Witness ==
  /\ buf_hdr /\ buf_cur >= 2
  /\ \E i \in DOMAIN trace_read : trace_read[i].cls # "DBG_PERF"
  /\ \E i \in DOMAIN trace_read : trace_read[i].subcls # PERF_KPC
  /\ \E i \in DOMAIN trace_read : trace_read[i].code # PERF_KPC_DATA_THREAD
  /\ Stored = PmcThreadData(trace_read)
  /\ \E i \in 1..buf_cur : buf_mem[i].id > i

\* the functions called by the log, in order
Called(log) == [k \in DOMAIN log |-> log[k][1]]

\* C27: when the buffer could not be allocated or grown, the collection is
\* over but the teardown runs: nothing is reported before it, and when the
\* allocation error is reported the trace channel was disabled and reset,
\* sampling and lightweight PET disabled, global and thread counting
\* disabled and the forced-counter reservation released, in that order, each
\* with argument 0; the calls that succeeded have taken effect.
C27_TeardownAfterAllocationFailure ==
  /\ (pc \in {"alloc", "collect", "teardown"})
       => (ret = NULL /\ printed = <<>> /\ calls = <<>>)
  /\ (pc \in {"done", "decode"} /\ ~buf_hdr) =>
       /\ ret = "Failed to allocate memory for trace log.\n"
       /\ printed = <<ret>>
       /\ Called(calls) =
            <<"kdebug_trace_enable", "kdebug_reset", "kperf_sample_set",
              "kperf_lightweight_pet_set", "kpc_set_counting",
              "kpc_set_thread_counting", "kpc_force_all_ctrs_set">>
       /\ \A k \in DOMAIN calls : calls[k][2] = 0
       /\ (\A k \in DOMAIN calls : calls[k][3] = 0)
            => /\ kpc_counting = 0 /\ kpc_thread_counting = 0
               /\ kpc_force_all_ctrs = 0

\* the buffer could not be grown after records were stored, the teardown
\* has run and released the counters, and the allocation error is reported
C27_Witness ==
  /\ pc = "done" /\ ~buf_hdr /\ buf_cur > 0 /\ trace_read # <<>>
  /\ ret = "Failed to allocate memory for trace log.\n"
  /\ Len(calls) = 7
  /\ kpc_counting = 0 /\ kpc_thread_counting = 0 /\ kpc_force_all_ctrs = 0

\* C29: with the clock advancing in every iteration, the collection loop is
\* left in the end, and an iteration leaves it exactly when the time since
\* begin exceeds total_profile_time + sample_period or the buffer could not
\* be grown; whatever the kernel read returned (failure, no record, records)
\* the loop goes on otherwise.
C29_LoopTerminates ==
  /\ <>(pc \notin {"alloc", "collect"})
  /\ [][(pc = "collect" /\ op' = "collect")
          => /\ now' > now
             /\ (pc' # "collect")
                  <=> (now' > total_profile_time + sample_period
                         \/ ~buf_hdr')
             /\ pc' \in {"collect", "teardown"}]_vars

\* the loop was left because the time was up, after iterations in which the
\* kernel delivered no record
C29_Witness ==
  /\ pc = "teardown" /\ buf_hdr /\ trace_read = <<>>
  /\ now > total_profile_time + sample_period

\* ------------------------------------------------------------------------
\* Sampling and trace setup of main2 (counters.c:1230-1292)
\* ------------------------------------------------------------------------

\* the calls of the setup in order: function, argument, and what is printed
\* before the result when the call fails
setup_steps ==
  << <<"kperf_action_count_set", "KPERF_ACTION_MAX",
       "Failed set action count: ">>,
     <<"kperf_timer_count_set", "KPERF_TIMER_MAX",
       "Failed set timer count: ">>,
     <<"kperf_action_samplers_set", "KPERF_SAMPLER_PMC_THREAD",
       "Failed set sampler type: ">>,
     <<"kperf_action_filter_set_by_pid", "target_pid",
       "Failed set filter pid: ">>,
     <<"kperf_timer_period_set", "tick", "Failed set timer period: ">>,
     <<"kperf_timer_action_set", "timerid", "Failed set timer action: ">>,
     <<"kperf_timer_pet_set", "timerid", "Failed set timer PET: ">>,
     <<"kperf_lightweight_pet_set", 1, "Failed set lightweight PET: ">>,
     <<"kperf_sample_set", 1, "Failed start sample: ">>,
     <<"kdebug_reset", 0, "Failed reset kdebug: ">>,
     <<"kdebug_trace_setbuf", "nbufs", "Failed setbuf: ">>,
     <<"kdebug_reinit", 0, "Failed init kdebug buffer: ">>,
     <<"kdebug_setreg", "kdr", "Failed set kdebug filter: ">>,
     <<"kdebug_trace_enable", 1, "Failed enable kdebug trace: ">> >>

SetupCalls == {setup_steps[k][1] : k \in DOMAIN setup_steps}

\* the state of the setup: the calls made and what was printed; no step of
\* the setup returns from main2
SetupState == [calls |-> <<>>, printed |-> <<>>]

\* the steps k, k + 1, ... of the setup, the calls of F failing with -1:
\* `if ((ret = f(...))) { printf("Failed ...: %d.\n", ret); }`
RECURSIVE main2_setup_from(_, _, _)
main2_setup_from(G, k, F) ==
  IF k > Len(setup_steps) THEN G
  ELSE Bind(IF setup_steps[k][1] \in F THEN -1 ELSE 0, LAMBDA r :
        Bind([G EXCEPT
                !.calls = Append(@, <<setup_steps[k][1],
                                      setup_steps[k][2], r>>),
                !.printed = IF r = 0 THEN @
                            ELSE Append(@, setup_steps[k][3]
                                             \o ToString(r) \o ".\n")],
             LAMBDA G1 :
               Bind(k + 1, LAMBDA k1 : main2_setup_from(G1, k1, F))))

main2_setup(F) == main2_setup_from(SetupState, 1, F)

\* the calls that fail in one setup: none, one, or two
SetupFailures == {F \in SUBSET SetupCalls : Cardinality(F) <= 2}

\* ------------------------------------------------------------------------
\* Specification of the setup of main2 alone, up to the entry of the
\* collection loop, counting being on
\* ------------------------------------------------------------------------

InitSetup ==
  /\ LibIdle
  /\ dl_avail = AllAvailable
  /\ ResIdle
  /\ ProgIdle
  /\ kpc_counting = KPC_CLASS_FIXED_MASK
  /\ kpc_thread_counting = KPC_CLASS_FIXED_MASK
  /\ kpc_force_all_ctrs = 1
  /\ DecIdle /\ WaitIdle /\ ReadIdle
  /\ pc = "setup" /\ buf_hdr = FALSE /\ buf_capacity = 0 /\ buf_mem = <<>>
  /\ buf_cur = 0 /\ buf_end = 0 /\ now = 0 /\ trace_read = <<>>
  /\ printed = <<>>
  /\ op = "none" /\ ret = NULL /\ calls = <<>> /\ n_calls = 0

\* the setup of the sampler and of the trace channel
SetupSampling ==
  /\ pc = "setup"
  /\ \E F \in SetupFailures : \E G \in {main2_setup(F)} :
       /\ calls' = G.calls
       /\ printed' = G.printed
       /\ pc' = "alloc"
  /\ op' = "setup"
  /\ UNCHANGED <<libvars, dl_avail, resvars, progvars, kernvars, decvars,
                 waitvars, readvars,
                 buf_hdr, buf_capacity, buf_mem, buf_cur, buf_end, now,
                 trace_read, ret, n_calls>>

NextSetup == SetupSampling \/ AllocBuffer

SpecSetup == InitSetup /\ [][NextSetup]_vars

\* C28: when a call of the setup fails (action or timer count, sampler, pid
\* filter, timer period, action or PET, lightweight PET, start of sampling,
\* trace reset, buffer size, re-init, filter, trace enable), main2 does not
\* go on to the collection loop.
C28_SetupErrorAborts ==
  (\E k \in DOMAIN calls : calls[k][1] \in SetupCalls /\ calls[k][3] # 0)
    => pc # "collect"

\* ------------------------------------------------------------------------
\* kdebug_wait (counters.c:861-874)
\* ------------------------------------------------------------------------

\* kdebug_wait(t, p) where p points to the value sv (NULL for no pointer)
\* and the kernel answers a wait with K: the value returned, what p points
\* to afterwards, and the sysctl calls made
kdebug_wait(t, sv, K) ==
  IF t = 0 THEN [ret |-> -1, suc |-> sv, calls |-> <<>>]
  ELSE [ret |-> K.ret,
        suc |-> IF sv = NULL THEN NULL
                ELSE IF K.filled THEN "true" ELSE "false",
        calls |-> << <<"sysctl", <<"KERN_KDBUFWAIT", t>>, K.ret>> >>]

\* ------------------------------------------------------------------------
\* Specification of kdebug_wait alone: one call with a timeout, a pointer
\* and an answer of the kernel drawn from bounded sets
\* ------------------------------------------------------------------------

InitWait ==
  /\ LibIdle
  /\ dl_avail = AllAvailable
  /\ ResIdle
  /\ ProgIdle
  /\ KernIdle
  /\ DecIdle /\ ColIdle /\ ReadIdle
  /\ timeout_ms \in 0..MaxTimeout
  /\ suc \in {NULL, "unset"}
  /\ kdbufwait \in [ret : {0, -1}, filled : BOOLEAN]
  /\ op = "none" /\ ret = 0 /\ calls = <<>> /\ n_calls = 0

KdebugWaitCall ==
  /\ op = "none"
  /\ \E W \in {kdebug_wait(timeout_ms, suc, kdbufwait)} :
       /\ ret' = W.ret /\ suc' = W.suc /\ calls' = W.calls
  /\ op' = "kdebug_wait"
  /\ UNCHANGED <<libvars, dl_avail, resvars, progvars, kernvars, decvars,
                 colvars, readvars, timeout_ms, kdbufwait, n_calls>>

NextWait == KdebugWaitCall

SpecWait == InitWait /\ [][NextWait]_vars

\* C30: kdebug_wait called with timeout_ms = 0 waits forever: it issues
\* the wait to the kernel (sysctl KERN_KDBUFWAIT), returns what the kernel
\* returns and reports through suc whether buffers were filled, rather
\* than returning an error without waiting.
C30_ZeroTimeoutWaits ==
  (op = "kdebug_wait" /\ timeout_ms = 0) =>
    /\ Len(calls) = 1 /\ calls[1][1] = "sysctl"
    /\ ret = kdbufwait.ret
    /\ suc # "unset"


\* ------------------------------------------------------------------------
\* Counting and the forced-counter reservation over a whole session
\* ------------------------------------------------------------------------

\* counting is on, globally or for the thread
CountingEnabled == kpc_counting # 0 \/ kpc_thread_counting # 0

\* C31: over any sequence of init, start and stop, counting is enabled only
\* while the session holds the forced-counter reservation; in particular a
\* successful start that follows a successful stop does not leave counting
\* enabled with the reservation released
C31_CountingOnlyWhileReserved ==
  [][(op = "stop" /\ ret = NULL /\ op' = "start" /\ ret' = NULL)
       => (CountingEnabled' => kpc_force_all_ctrs' = 1)]_vars

\* C32: no entry point is invoked while unbound: whatever the order of
\* init, start and stop, no call goes through a NULL function pointer
C32_NoUnboundCall ==
  op \in {"init", "start", "stop"} => ret # CRASH


\* ------------------------------------------------------------------------
\* Decode of samples that fit in one record
\* ------------------------------------------------------------------------

\* C33: for every counter count from 1 to 4, each record marked start with a
\* nonzero thread id is decoded as a complete sample made of its first
\* counter_count argument words, and the first sample of a thread is stored
\* as the start snapshot of its thread_data entry: no sample is discarded
\* that has as many values as the counter count
C33_SmallCountsDecoded ==
  (op = "decode" /\ counter_count \in 1..4) =>
    /\ Len(samples) = Cardinality(CompleteStarts)
    /\ \A j \in DOMAIN samples :
          LET k == Nth(CompleteStarts, j)
          IN /\ samples[j].tid = kd_bufs[k].tid
             /\ samples[j].timestamp = kd_bufs[k].timestamp
             /\ samples[j].counters =
                  [i \in 1..counter_count |-> kd_bufs[k].args[i]]
    /\ \A k \in CompleteStarts :
          \E i \in DOMAIN thread_data : thread_data[i].tid = kd_bufs[k].tid


\* ------------------------------------------------------------------------
\* The pointers of the local buffer in the collection loop
\* ------------------------------------------------------------------------

\* C34: at the top and at the bottom of every iteration of the collection
\* loop the end pointer marks the end of the allocation, buf_end = buf_hdr +
\* buf_capacity, and buf_hdr <= buf_cur <= buf_end, also after the buffer
\* has been grown
C34_EndPointerIsEndOfAllocation ==
  (buf_hdr /\ op \in {"alloc", "collect"}) =>
    /\ buf_end = buf_capacity
    /\ 0 <= buf_cur /\ buf_cur <= buf_end

\* C35: at each call of kdebug_trace_read in the collection loop, that is
\* right after the growth step of the iteration, the write position plus
\* one read unit of nbufs records does not exceed the allocated capacity;
\* the write position is not moved before the read, and neither the
\* capacity nor the allocation changes after it in the iteration
C35_ReadStaysInsideBuffer ==
  [][(pc = "collect" /\ op' = "collect" /\ buf_hdr')
       => /\ expand_buffer(LoopState, TRUE).buf_cur + nbufs
               <= expand_buffer(LoopState, TRUE).buf_capacity
          /\ Len(expand_buffer(LoopState, TRUE).buf_mem)
               = expand_buffer(LoopState, TRUE).buf_capacity
          /\ buf_cur + nbufs <= buf_capacity'
          /\ Len(buf_mem') = buf_capacity'
          /\ buf_cur' <= buf_cur + nbufs]_vars

\* the buffer has been grown twice and a read went past the first capacity
C35_Witness ==
  /\ op = "collect" /\ buf_hdr
  /\ buf_capacity >= 8 * nbufs
  /\ buf_cur > 2 * nbufs
  /\ Len(trace_read) >= buf_cur


\* ------------------------------------------------------------------------
\* kdebug_trace_read: one read of the kernel trace buffer
\* ------------------------------------------------------------------------

\* the largest len of a call, in records
MaxReadLen == 3

\* what a call leaves when it stores nothing more through count
ReadReturn(r, c, log) ==
  [ret |-> r, count |-> c, fault |-> FALSE, crashed |-> FALSE, calls |-> log]

\* the sysctl of kdebug_trace_read as seen in the log
ReadSysctl(l, K) == << <<"sysctl", <<"KERN_KDREADTR", l>>, K.ret>> >>

\* kdebug_trace_read(buf, len, count) with the answer K of the kernel; the
\* last store '*count = len' is not guarded: with count NULL it goes through
\* the NULL pointer, and the process traps or goes on
kdebug_trace_read(b, l, c, K, trap) ==
  Bind(IF c.ptr THEN [c EXCEPT !.val = 0] ELSE c, LAMBDA c0 :
    IF ~b \/ l = 0 THEN ReadReturn(-1, c0, <<>>)
    ELSE IF K.ret # 0 THEN ReadReturn(K.ret, c0, ReadSysctl(l, K))
    ELSE IF c.ptr
      THEN ReadReturn(0, [c0 EXCEPT !.val = K.len], ReadSysctl(l, K))
    ELSE [ret |-> 0, count |-> c0, fault |-> TRUE, crashed |-> trap,
          calls |-> ReadSysctl(l, K)])

\* one call with arguments and an answer of the kernel drawn from bounded
\* sets; the kernel delivers no more records than len allows
InitRead ==
  /\ LibIdle
  /\ dl_avail = AllAvailable
  /\ ResIdle
  /\ ProgIdle
  /\ KernIdle
  /\ DecIdle /\ ColIdle /\ WaitIdle
  /\ rd_buf \in BOOLEAN
  /\ rd_len \in 0..MaxReadLen
  /\ rd_count \in [ptr : BOOLEAN, val : {0, MaxReadLen + 1}]
  /\ (~rd_count.ptr => rd_count.val = 0)
  /\ kdreadtr \in [ret : {0, -1}, len : 0..MaxReadLen]
  /\ kdreadtr.len <= rd_len
  /\ rd_fault = FALSE
  /\ op = "none" /\ ret = 0 /\ calls = <<>> /\ n_calls = 0

KdebugTraceReadCall ==
  /\ op = "none"
  /\ \E trap \in BOOLEAN :
       \E R \in {kdebug_trace_read(rd_buf, rd_len, rd_count, kdreadtr,
                                   trap)} :
         /\ ret' = IF R.crashed THEN ret ELSE R.ret
         /\ op' = IF R.crashed THEN CRASH ELSE "kdebug_trace_read"
         /\ rd_count' = R.count /\ rd_fault' = R.fault /\ calls' = R.calls
  /\ UNCHANGED <<libvars, dl_avail, resvars, progvars, kernvars, decvars,
                 colvars, waitvars, rd_buf, rd_len, kdreadtr, n_calls>>

NextRead == KdebugTraceReadCall

SpecRead == InitRead /\ [][NextRead]_vars

\* C36: kdebug_trace_read never writes through a NULL count pointer and
\* reports the number of records only on success: with buf NULL or len 0 it
\* returns -1 with *count = 0 if count is given, when the kernel read fails
\* it returns the error with *count = 0, and when the read succeeds it
\* returns 0 and stores the record count if count is not NULL
C36_CountWrittenOnlyIfGiven ==
  (op \in {"kdebug_trace_read", CRASH}) =>
    /\ ~rd_fault /\ op # CRASH
    /\ (~rd_buf \/ rd_len = 0) =>
         (ret = -1 /\ (rd_count.ptr => rd_count.val = 0))
    /\ (rd_buf /\ rd_len # 0 /\ kdreadtr.ret # 0) =>
         (ret = kdreadtr.ret /\ (rd_count.ptr => rd_count.val = 0))
    /\ (rd_buf /\ rd_len # 0 /\ kdreadtr.ret = 0) =>
         (ret = 0 /\ (rd_count.ptr => rd_count.val = kdreadtr.len))

====
